---- MODULE Spec2Model ----
(***************************************************************************)
(* Structured pruning of a Transformer's optimizer state (ds-ai96/SRP).    *)
(*                                                                         *)
(* The model covers src/src/optim/SPTadam.py (class Adam: step,            *)
(* remove_grads, pruning, and the name parser _parsing) and the hard-prune *)
(* call sequence of src/src/pruning.py (train).                            *)
(*                                                                         *)
(* Conventions                                                             *)
(*  - A tensor is a record [shape, d]: shape is the torch shape tuple, d   *)
(*    the values (a sequence for a 1-D tensor, a sequence of rows for a    *)
(*    2-D one).  A missing gradient (p.grad is None) is the tensor of      *)
(*    rank 0, NoGrad.                                                      *)
(*  - A parameter name is the tuple of its dot-separated components, so    *)
(*    that _n.split('.') is the name itself; Python's substring test       *)
(*    'pat' in _n is PatternsIn, tabulated for the components in use.      *)
(*  - Removal indices are 0-based, as in the Python code; positions of     *)
(*    TLA+ sequences are 1-based.                                          *)
(*  - A Python exception ends the run: pc = "failed", with every in-place  *)
(*    modification made before the raise kept.                             *)
(***************************************************************************)
EXTENDS Integers, Sequences, FiniteSets, TLC

VARIABLES
    params,       \* list(_model.named_parameters()): name, requires_grad, id, data, grad
    pd,           \* _model.pm.pruning_dict: group key -> list of indices to remove
    state,        \* Adam.state in iteration order: <<[key, v]>>, key a parameter id
    groupParams,  \* Adam.param_groups[0]['params'], as parameter ids
    amsgrad,      \* Adam.defaults['amsgrad']
    lazyState,    \* TRUE while Adam.state is the defaultdict of Optimizer.__init__
    pc,           \* "ready" | "grads" | "pruning" | "done" | "failed"
    nops,         \* number of operations performed so far
    last,         \* the last operation: [op, ok, prev] (prev: the operation before it)
    old,          \* params, state and groupParams as they were before the last operation
    cfg,          \* the configuration of main(): srp, decreasing, pruning_stage, ...
    loc,          \* the position of the run in main() and train()
    epoch_itr,    \* the train iterator: [epoch, pos], pos batches of the epoch consumed
    is_first_epoch, \* the local variable of main()
    epoch,        \* _epoch, the epoch the phase was looked up for
    phase,        \* trainer.model.phase
    do_pruning,   \* the flag returned by pm.get_phase
    gate_c,       \* the number of decay ticks (decrease_c) the gate vectors have taken
    pd_uses,      \* the number of hard prunes completed with the decision in pd
    log,          \* the calls made since the last phase lookup, in order
    ck,           \* the last checkpoint written
    run           \* "fresh" | "resuming" (restarted, no training step yet) | "resumed"

loopVars == <<cfg, loc, epoch_itr, is_first_epoch, epoch, phase, do_pruning,
              gate_c, pd_uses, log, ck, run>>

vars == <<params, pd, state, groupParams, amsgrad, lazyState, pc, nops, last, old,
          cfg, loc, epoch_itr, is_first_epoch, epoch, phase, do_pruning,
          gate_c, pd_uses, log, ck, run>>

---------------------------------------------------------------------------
(* Bounds of the model *)

VocabDim == 2   \* rows of an embedding matrix
EmbedDim == 3   \* the global (embedding) axis
FcDim    == 4   \* the local axis of a feed-forward block
QkDim    == 3   \* the local axis of q_proj / k_proj
VoDim    == 2   \* the local axis of v_proj / out_proj
MaxOps   == 5   \* operations per run
MaxSkip  == 2   \* a backward pass may leave one of the first MaxSkip parameters without gradient
MaxEpoch == 3   \* cfg.optimization.max_epoch
BatchesPerEpoch == 2   \* batches of the train iterator in one epoch

---------------------------------------------------------------------------
(* Tensors *)

NoGrad == [shape |-> <<>>, d |-> <<>>]

Rank(t) == Len(t.shape)

IsNone(t) == Rank(t) = 0

IdxSet(ix) == {ix[k] : k \in 1..Len(ix)}

\* An index list addresses an axis of extent n without an IndexError.
InRange(ix, n) == \A k \in 1..Len(ix) : ix[k] < n

\* A tensor of the given shape whose entries are sc times a position code
\* (distinct and non-zero all over the tensor).
Ramp(shape, sc) ==
    IF Len(shape) = 1
    THEN [shape |-> shape, d |-> [i \in 1..shape[1] |-> sc * i]]
    ELSE [shape |-> shape,
          d |-> [i \in 1..shape[1] |-> [j \in 1..shape[2] |-> sc * (10 * i + j)]]]

\* torch.zeros_like(t)
ZerosLike(t) ==
    IF Rank(t) = 1
    THEN [shape |-> t.shape, d |-> [i \in 1..t.shape[1] |-> 0]]
    ELSE [shape |-> t.shape,
          d |-> [i \in 1..t.shape[1] |-> [j \in 1..t.shape[2] |-> 0]]]

Sign(x) == IF x > 0 THEN 1 ELSE IF x < 0 THEN -1 ELSE 0

Max(x, y) == IF x >= y THEN x ELSE y

RECURSIVE Pow2(_)
Pow2(n) == IF n = 0 THEN 1 ELSE 2 * Pow2(n - 1)

---------------------------------------------------------------------------
(* Parameter names *)

\* 'pat' in c, for the patterns the optimizer tests and the name components in use.
PatternsIn(c) ==
    CASE c = "embed_tokens"            -> {"embed_tokens"}
      [] c = "output_projection"       -> {"output_projection"}
      [] c = "final_layer_norm"        -> {"layer_norm"}
      [] c = "layer_norm"              -> {"layer_norm"}
      [] c = "self_attn_layer_norm"    -> {"layer_norm", "self_attn", "attn"}
      [] c = "encoder_attn_layer_norm" -> {"layer_norm", "attn"}
      [] c = "fc_layer_norm"           -> {"layer_norm", "fc"}
      [] c = "fc1"                     -> {"fc"}
      [] c = "fc2"                     -> {"fc", "fc2"}
      [] c = "fc_c"                    -> {"fc"}
      [] c = "self_attn"               -> {"self_attn", "attn"}
      [] c = "encoder_attn"            -> {"attn"}
      [] c = "self_attn_qk_c"          -> {"self_attn", "attn"}
      [] c = "self_attn_vo_c"          -> {"self_attn", "attn"}
      [] c = "encoder_attn_qk_c"       -> {"attn"}
      [] c = "encoder_attn_vo_c"       -> {"attn"}
      [] c = "q_proj"                  -> {"q_proj"}
      [] c = "k_proj"                  -> {"k_proj"}
      [] c = "v_proj"                  -> {"v_proj"}
      [] c = "out_proj"                -> {"out_proj"}
      [] c = "bias"                    -> {"bias"}
      [] OTHER                         -> {}

\* 'pat' in _n (no pattern holds a dot, so a match lies within one component)
Has(n, pat) == \E i \in 1..Len(n) : pat \in PatternsIn(n[i])

\* _n[-2:] == "_c"
EndsWithC(n) ==
    n[Len(n)] \in {"embedding_c", "fc_c", "self_attn_qk_c", "self_attn_vo_c",
                   "encoder_attn_qk_c", "encoder_attn_vo_c"}

---------------------------------------------------------------------------
(* Models: the (name, requires_grad, shape) list of _model.named_parameters() *)

P(name, rg, shape) == [name |-> name, requires_grad |-> rg, shape |-> shape]

\* An encoder with one feed-forward block.
FfnModel == <<
    P(<<"encoder", "embed_tokens", "weight">>, TRUE, <<VocabDim, EmbedDim>>),
    P(<<"encoder", "layers", "0", "fc1", "weight">>, TRUE, <<FcDim, EmbedDim>>),
    P(<<"encoder", "layers", "0", "fc1", "bias">>, TRUE, <<FcDim>>),
    P(<<"encoder", "layers", "0", "fc2", "weight">>, TRUE, <<EmbedDim, FcDim>>),
    P(<<"encoder", "layers", "0", "fc2", "bias">>, TRUE, <<EmbedDim>>),
    P(<<"encoder", "layers", "0", "final_layer_norm", "weight">>, TRUE, <<EmbedDim>>),
    P(<<"encoder", "embedding_c">>, FALSE, <<EmbedDim>>),
    P(<<"encoder", "layers", "0", "fc_c">>, FALSE, <<FcDim>>) >>

\* A decoder layer's cross attention, followed by the output projection.
AttnModel == <<
    P(<<"decoder", "layers", "0", "encoder_attn", "k_proj", "weight">>, TRUE, <<QkDim, EmbedDim>>),
    P(<<"decoder", "layers", "0", "encoder_attn", "v_proj", "weight">>, TRUE, <<VoDim, EmbedDim>>),
    P(<<"decoder", "layers", "0", "encoder_attn", "v_proj", "bias">>, TRUE, <<VoDim>>),
    P(<<"decoder", "layers", "0", "encoder_attn", "q_proj", "weight">>, TRUE, <<QkDim, EmbedDim>>),
    P(<<"decoder", "layers", "0", "encoder_attn", "out_proj", "weight">>, TRUE, <<EmbedDim, VoDim>>),
    P(<<"decoder", "layers", "0", "encoder_attn", "out_proj", "bias">>, TRUE, <<EmbedDim>>),
    P(<<"decoder", "layers", "0", "encoder_attn_qk_c">>, FALSE, <<QkDim>>),
    P(<<"decoder", "output_projection", "weight">>, TRUE, <<VocabDim, EmbedDim>>) >>

\* A decoder whose output projection is registered before its layers.
OutFirstModel == <<
    P(<<"decoder", "output_projection", "weight">>, TRUE, <<VocabDim, EmbedDim>>),
    P(<<"decoder", "layers", "0", "fc2", "weight">>, TRUE, <<EmbedDim, FcDim>>),
    P(<<"decoder", "layers", "0", "self_attn", "q_proj", "bias">>, TRUE, <<QkDim>>),
    P(<<"decoder", "layers", "0", "self_attn", "out_proj", "weight">>, TRUE, <<EmbedDim, VoDim>>) >>

\* Names outside the naming convention: one that matches no role pattern and one
\* that matches two (layer_norm and fc).
OddModel == <<
    P(<<"encoder", "layers", "0", "fc1", "bias">>, TRUE, <<FcDim>>),
    P(<<"encoder", "layers", "0", "conv", "weight">>, TRUE, <<FcDim, EmbedDim>>),
    P(<<"encoder", "layers", "0", "fc_layer_norm", "weight">>, TRUE, <<EmbedDim>>) >>

\* Self-attention projections of an encoder layer and of a decoder layer.
SelfAttnModel == <<
    P(<<"encoder", "layers", "0", "self_attn", "k_proj", "weight">>, TRUE, <<QkDim, EmbedDim>>),
    P(<<"encoder", "layers", "0", "self_attn", "out_proj", "bias">>, TRUE, <<EmbedDim>>),
    P(<<"decoder", "layers", "0", "self_attn", "v_proj", "weight">>, TRUE, <<VoDim, EmbedDim>>),
    P(<<"decoder", "layers", "0", "self_attn", "out_proj", "weight">>, TRUE, <<EmbedDim, VoDim>>) >>

\* The embeddings of both sides, a layer norm inside a layer, and the layer norm
\* that closes the encoder (encoder.layer_norm of a pre-norm transformer).
NormModel == <<
    P(<<"encoder", "embed_tokens", "weight">>, TRUE, <<VocabDim, EmbedDim>>),
    P(<<"decoder", "embed_tokens", "weight">>, TRUE, <<VocabDim, EmbedDim>>),
    P(<<"decoder", "layers", "0", "self_attn_layer_norm", "bias">>, TRUE, <<EmbedDim>>),
    P(<<"encoder", "layer_norm", "weight">>, TRUE, <<EmbedDim>>) >>

Models == <<FfnModel, AttnModel, OutFirstModel, OddModel, SelfAttnModel, NormModel>>

---------------------------------------------------------------------------
(* Removal Decisions *)

EncG == <<"encoder", "embedding_c">>
DecG == <<"decoder", "embedding_c">>
LocalKey(ende, ly, grp) == <<ende, "layers", ly, grp>>

NoDecision == [k \in {} |-> <<>>]

\* Only the global groups are selected.
GlobalDecision == (EncG :> <<1>>) @@ (DecG :> <<0, 2>>)

\* Global and local groups, one list out of order and with a repeated index.
FullDecision ==
    (EncG :> <<1>>) @@ (DecG :> <<2, 0>>)
    @@ (LocalKey("encoder", "0", "fc_c") :> <<0, 3>>)
    @@ (LocalKey("decoder", "0", "fc_c") :> <<3, 0, 3>>)
    @@ (LocalKey("encoder", "0", "self_attn_qk_c") :> <<2>>)
    @@ (LocalKey("decoder", "0", "self_attn_qk_c") :> <<1>>)
    @@ (LocalKey("decoder", "0", "self_attn_vo_c") :> <<0>>)
    @@ (LocalKey("decoder", "0", "encoder_attn_qk_c") :> <<0, 2>>)
    @@ (LocalKey("decoder", "0", "encoder_attn_vo_c") :> <<1>>)

\* Only local groups are selected.
LocalDecision ==
    (LocalKey("encoder", "0", "fc_c") :> <<1, 2>>)
    @@ (LocalKey("decoder", "0", "fc_c") :> <<1>>)
    @@ (LocalKey("decoder", "0", "encoder_attn_vo_c") :> <<0>>)

\* Selected groups with empty index lists.
EmptyListsDecision == (EncG :> <<>>) @@ (DecG :> <<>>)

\* A decision computed against a wider model: the local lists name the index
\* one past the current extent of their axis.
StaleDecision ==
    (EncG :> <<0>>) @@ (DecG :> <<0>>)
    @@ (LocalKey("encoder", "0", "fc_c") :> <<1, FcDim>>)
    @@ (LocalKey("decoder", "0", "fc_c") :> <<FcDim>>)
    @@ (LocalKey("decoder", "0", "encoder_attn_vo_c") :> <<VoDim>>)

Decisions == <<NoDecision, GlobalDecision, FullDecision, LocalDecision,
               EmptyListsDecision, StaleDecision>>

\* pd[key] if key in pd else []
PdGet(d, key) == IF key \in DOMAIN d THEN d[key] ELSE <<>>

---------------------------------------------------------------------------
(* Index assignment and boolean-mask selection of torch tensors *)

\* Mutant of ZeroAxis0: the marked positions are halved, as a decay tick would,
\* instead of being set to zero.
HalveAxis0(t, ix) ==
    IF Rank(t) = 1
    THEN [t EXCEPT !.d = [i \in 1..t.shape[1] |->
                            IF (i - 1) \in IdxSet(ix) THEN t.d[i] \div 2 ELSE t.d[i]]]
    ELSE [t EXCEPT !.d = [i \in 1..t.shape[1] |->
                            IF (i - 1) \in IdxSet(ix)
                            THEN [j \in 1..t.shape[2] |-> t.d[i][j] \div 2]
                            ELSE t.d[i]]]

\* t[ix] = 0. and t[ix, :] = 0. : zero the positions ix of axis 0.
ZeroAxis0(t, ix) ==
    IF Rank(t) = 1
    THEN [t EXCEPT !.d = [i \in 1..t.shape[1] |->
                            IF (i - 1) \in IdxSet(ix) THEN 0 ELSE t.d[i]]]
    ELSE [t EXCEPT !.d = [i \in 1..t.shape[1] |->
                            IF (i - 1) \in IdxSet(ix)
                            THEN [j \in 1..t.shape[2] |-> 0] ELSE t.d[i]]]

\* t[:, ix] = 0. : zero the positions ix of axis 1.
ZeroAxis1(t, ix) ==
    [t EXCEPT !.d = [i \in 1..t.shape[1] |->
                       [j \in 1..t.shape[2] |->
                          IF (j - 1) \in IdxSet(ix) THEN 0 ELSE t.d[i][j]]]]

\* One index assignment "t<form> = 0.".  form "idx" is t[ix], "rows" is t[ix, :],
\* "cols" is t[:, ix].  It raises (ok = FALSE) on a missing tensor (TypeError), on
\* a two-axis form applied to a 1-D tensor and on an index beyond the axis
\* (IndexError); the tensor is then as it was.
Assign(t, form, ix) ==
    IF IsNone(t) THEN [ok |-> FALSE, t |-> t]
    ELSE IF form = "idx" THEN
        IF InRange(ix, t.shape[1]) THEN [ok |-> TRUE, t |-> ZeroAxis0(t, ix)]
        ELSE [ok |-> FALSE, t |-> t]
    ELSE IF Rank(t) < 2 THEN [ok |-> FALSE, t |-> t]
    ELSE IF form = "rows" THEN
        IF InRange(ix, t.shape[1]) THEN [ok |-> TRUE, t |-> ZeroAxis0(t, ix)]
        ELSE [ok |-> FALSE, t |-> t]
    ELSE
        IF InRange(ix, t.shape[2]) THEN [ok |-> TRUE, t |-> ZeroAxis1(t, ix)]
        ELSE [ok |-> FALSE, t |-> t]

\* The positions a boolean mask keeps, in increasing order.
Kept(mask) == SelectSeq([p \in 1..Len(mask) |-> p], LAMBDA p : mask[p])

\* t[mask] and t[mask, :] : the entries of axis 0 the mask keeps.
SelAxis0(t, mask) ==
    LET k == Kept(mask)
    IN  [shape |-> [t.shape EXCEPT ![1] = Len(k)],
         d |-> [i \in 1..Len(k) |-> t.d[k[i]]]]

\* t[:, mask] : the entries of axis 1 the mask keeps.
SelAxis1(t, mask) ==
    LET k == Kept(mask)
    IN  [shape |-> [t.shape EXCEPT ![2] = Len(k)],
         d |-> [i \in 1..t.shape[1] |-> [j \in 1..Len(k) |-> t.d[i][k[j]]]]]

---------------------------------------------------------------------------
(* _parsing and the ordinary-parameter filters *)

\* _parsing(_name): ok is FALSE where the Python raises (the assert, the index
\* beyond _l, or the unbound locals after the swallowed exception).
Parsing(n) ==
    IF Has(n, "embed_tokens") THEN [ok |-> FALSE, ende |-> "", ly |-> ""]
    ELSE IF Has(n, "attn") /\ ~Has(n, "layer_norm")
    THEN IF Len(n) >= 6 THEN [ok |-> TRUE, ende |-> n[1], ly |-> n[3]]
         ELSE [ok |-> FALSE, ende |-> "", ly |-> ""]
    ELSE IF Len(n) >= 5 THEN [ok |-> TRUE, ende |-> n[1], ly |-> n[3]]
         ELSE [ok |-> FALSE, ende |-> "", ly |-> ""]

\* param_list / param_names of remove_grads, as positions in params.
NeutralizerList(ps) ==
    SelectSeq([i \in 1..Len(ps) |-> i],
              LAMBDA i : ~EndsWithC(ps[i].name) /\ ps[i].requires_grad)

\* param_list / param_names of pruning, as positions in params.
PruningList(ps) ==
    SelectSeq([i \in 1..Len(ps) |-> i],
              LAMBDA i : ~(Has(ps[i].name, "_indices") \/ Has(ps[i].name, "mask"))
                         /\ ~(EndsWithC(ps[i].name) \/ ~ps[i].requires_grad))

\* Mutant of AttnGlobalKey: every attention projection takes the embedding group
\* of the side that owns it.
AttnGlobalKeyOwnSide(n, ende) == <<ende, "embedding_c">>

\* The global and local keys of an attention projection.
AttnGlobalKey(n, ende) ==
    IF Has(n, "self_attn") THEN <<ende, "embedding_c">>
    ELSE IF Has(n, "k_proj") \/ Has(n, "v_proj") THEN <<"encoder", "embedding_c">>
    ELSE <<"decoder", "embedding_c">>

\* Mutant of AttnLocalKey: v_proj goes with the qk group, like q_proj and k_proj.
AttnLocalKeyQkv(n, ende, ly) ==
    IF Has(n, "self_attn")
    THEN IF Has(n, "out_proj")
         THEN LocalKey(ende, ly, "self_attn_vo_c")
         ELSE LocalKey(ende, ly, "self_attn_qk_c")
    ELSE IF Has(n, "out_proj")
         THEN LocalKey(ende, ly, "encoder_attn_vo_c")
         ELSE LocalKey(ende, ly, "encoder_attn_qk_c")

AttnLocalKey(n, ende, ly) ==
    IF Has(n, "self_attn")
    THEN IF Has(n, "q_proj") \/ Has(n, "k_proj")
         THEN LocalKey(ende, ly, "self_attn_qk_c")
         ELSE LocalKey(ende, ly, "self_attn_vo_c")
    ELSE IF Has(n, "q_proj") \/ Has(n, "k_proj")
         THEN LocalKey(ende, ly, "encoder_attn_qk_c")
         ELSE LocalKey(ende, ly, "encoder_attn_vo_c")

---------------------------------------------------------------------------
(* Adam.remove_grads *)

Op(t, form, ix) == [t |-> t, form |-> form, ix |-> ix]

\* The same assignment to the gradient, exp_avg and exp_avg_sq.
OneAxis(form, ix) ==
    << Op("grad", form, ix), Op("exp_avg", form, ix), Op("exp_avg_sq", form, ix) >>

\* Two assignments to each of the gradient, exp_avg and exp_avg_sq.
TwoAxes(f1, ix1, f2, ix2) ==
    << Op("grad", f1, ix1), Op("grad", f2, ix2),
       Op("exp_avg", f1, ix1), Op("exp_avg", f2, ix2),
       Op("exp_avg_sq", f1, ix1), Op("exp_avg_sq", f2, ix2) >>

\* The body of the loop of remove_grads for the name n: the index assignments it
\* makes, in order; ok = FALSE when _parsing raises.
NeutralizeOps(n, dec) ==
    IF EndsWithC(n) THEN [ok |-> TRUE, ops |-> <<>>]
    ELSE IF Has(n, "embed_tokens")
    THEN [ok |-> TRUE, ops |-> OneAxis("cols", PdGet(dec, <<n[1], "embedding_c">>))]
    ELSE IF Has(n, "output_projection") THEN [ok |-> TRUE, ops |-> <<>>]
    ELSE IF ~Parsing(n).ok THEN [ok |-> FALSE, ops |-> <<>>]
    ELSE LET ende == Parsing(n).ende
             ly == Parsing(n).ly
         IN  IF Has(n, "layer_norm")
             THEN [ok |-> TRUE,
                   ops |-> OneAxis("idx", PdGet(dec, <<ende, "embedding_c">>))]
             ELSE IF Has(n, "fc")
             THEN LET g == PdGet(dec, <<ende, "embedding_c">>)
                      l == PdGet(dec, LocalKey(ende, ly, "fc_c"))
                  IN  IF Has(n, "fc2")
                      THEN IF Has(n, "bias")
                           THEN [ok |-> TRUE, ops |-> OneAxis("idx", g)]
                           ELSE [ok |-> TRUE, ops |-> TwoAxes("rows", g, "cols", l)]
                      ELSE IF Has(n, "bias")
                           THEN [ok |-> TRUE, ops |-> OneAxis("idx", l)]
                           ELSE [ok |-> TRUE, ops |-> TwoAxes("cols", g, "rows", l)]
             ELSE LET g == PdGet(dec, AttnGlobalKey(n, ende))
                      l == PdGet(dec, AttnLocalKey(n, ende, ly))
                  IN  IF Has(n, "out_proj")
                      THEN IF Has(n, "bias")
                           THEN [ok |-> TRUE, ops |-> OneAxis("idx", g)]
                           ELSE [ok |-> TRUE, ops |-> TwoAxes("rows", g, "cols", l)]
                      ELSE IF Has(n, "bias")
                           THEN [ok |-> TRUE, ops |-> OneAxis("idx", l)]
                           ELSE [ok |-> TRUE, ops |-> TwoAxes("cols", g, "rows", l)]

\* The assignments ops[k..] applied in order to the gradient g and the state
\* entry v; the first one that raises stops the run of them.
RECURSIVE RunOps(_, _, _, _)
RunOps(ops, k, g, v) ==
    IF k > Len(ops) THEN [ok |-> TRUE, g |-> g, v |-> v]
    ELSE LET o == ops[k]
             r == Assign(IF o.t = "grad" THEN g
                         ELSE IF o.t = "exp_avg" THEN v.exp_avg ELSE v.exp_avg_sq,
                         o.form, o.ix)
         IN  IF ~r.ok THEN [ok |-> FALSE, g |-> g, v |-> v]
             ELSE IF o.t = "grad" THEN RunOps(ops, k + 1, r.t, v)
             ELSE IF o.t = "exp_avg"
                  THEN RunOps(ops, k + 1, g, [v EXCEPT !.exp_avg = r.t])
                  ELSE RunOps(ops, k + 1, g, [v EXCEPT !.exp_avg_sq = r.t])

\* The loop of remove_grads over self.state.items(), from entry i on: the i-th
\* entry is handled under the i-th name of the filtered list.
RECURSIVE NeutralizeFrom(_, _, _, _)
NeutralizeFrom(i, ps, st, dec) ==
    IF i > Len(st) THEN [ok |-> TRUE, params |-> ps, state |-> st]
    ELSE IF i > Len(NeutralizerList(ps))
    THEN [ok |-> FALSE, params |-> ps, state |-> st]
    ELSE LET pi == NeutralizerList(ps)[i]
             prog == NeutralizeOps(ps[pi].name, dec)
             r == RunOps(prog.ops, 1, ps[pi].grad, st[i].v)
             ps2 == [ps EXCEPT ![pi].grad = r.g]
             st2 == [st EXCEPT ![i].v = r.v]
         IN  IF ~ps[pi].requires_grad THEN NeutralizeFrom(i + 1, ps, st, dec)
             ELSE IF ~prog.ok THEN [ok |-> FALSE, params |-> ps, state |-> st]
             ELSE IF ~r.ok THEN [ok |-> FALSE, params |-> ps2, state |-> st2]
             ELSE NeutralizeFrom(i + 1, ps2, st2, dec)

remove_grads(ps, st, dec) == NeutralizeFrom(1, ps, st, dec)

---------------------------------------------------------------------------
(* Adam.pruning *)

\* Mutant of get_pruning_mask: the indices are taken as 1-based positions.
get_pruning_mask_one_based(max_len, ix) ==
    [ok |-> InRange(ix, max_len),
     mask |-> [p \in 1..max_len |-> p \notin IdxSet(ix)]]

\* get_pruning_mask(max_len, pruning_indices): the keep-mask of an axis;
\* ok = FALSE when _mask[pruning_indices] = False raises IndexError.
get_pruning_mask(max_len, ix) ==
    [ok |-> InRange(ix, max_len),
     mask |-> [p \in 1..max_len |-> (p - 1) \notin IdxSet(ix)]]

NoCut == [on |-> FALSE, ix |-> <<>>]
Cut(ix) == [on |-> TRUE, ix |-> ix]

\* Mutant of Cuts: the index lists of a weight cut along both axes change places.
CutsTransposed(c0, c1) ==
    IF c0.on /\ c1.on THEN [kind |-> "cut", c0 |-> c1, c1 |-> c0]
    ELSE [kind |-> "cut", c0 |-> c0, c1 |-> c1]

Cuts(c0, c1) == [kind |-> "cut", c0 |-> c0, c1 |-> c1]
Raise == [kind |-> "raise", c0 |-> NoCut, c1 |-> NoCut]
Continue == [kind |-> "continue", c0 |-> NoCut, c1 |-> NoCut]

\* The branch of the loop of pruning taken for the name n: "continue" (the entry
\* is left out), "raise" (KeyError of pd[_key], or _parsing raising), or the
\* index lists masked out of axis 0 (c0) and axis 1 (c1).
PruningCuts(n, dec) ==
    IF EndsWithC(n) THEN Continue
    ELSE IF Has(n, "embed_tokens")
    THEN IF <<n[1], "embedding_c">> \in DOMAIN dec
         THEN Cuts(NoCut, Cut(dec[<<n[1], "embedding_c">>]))
         ELSE Raise
    ELSE IF Has(n, "output_projection") THEN Continue
    ELSE IF ~Parsing(n).ok THEN Raise
    ELSE LET ende == Parsing(n).ende
             ly == Parsing(n).ly
         IN  IF Has(n, "layer_norm")
             THEN IF <<ende, "embedding_c">> \in DOMAIN dec
                  THEN Cuts(Cut(dec[<<ende, "embedding_c">>]), NoCut)
                  ELSE Raise
             ELSE IF Has(n, "fc")
             THEN LET g == PdGet(dec, <<ende, "embedding_c">>)
                      l == PdGet(dec, LocalKey(ende, ly, "fc_c"))
                  IN  IF Has(n, "fc2")
                      THEN IF Has(n, "bias") THEN Cuts(Cut(g), NoCut)
                           ELSE Cuts(Cut(g), Cut(l))
                      ELSE IF Has(n, "bias") THEN Cuts(Cut(l), NoCut)
                           ELSE Cuts(Cut(l), Cut(g))
             ELSE LET g == PdGet(dec, AttnGlobalKey(n, ende))
                      l == PdGet(dec, AttnLocalKey(n, ende, ly))
                  IN  IF Has(n, "out_proj")
                      THEN IF Has(n, "bias") THEN Cuts(Cut(g), NoCut)
                           ELSE Cuts(Cut(g), Cut(l))
                      ELSE IF Has(n, "bias") THEN Cuts(Cut(l), NoCut)
                           ELSE Cuts(Cut(l), Cut(g))

\* Mutant of Slice: a weight cut along both axes loses only its rows.
SliceRowsOnly(t, c0, c1) ==
    IF c0.on
    THEN SelAxis0(t, get_pruning_mask(t.shape[1], c0.ix).mask)
    ELSE IF c1.on
    THEN SelAxis1(t, get_pruning_mask(t.shape[2], c1.ix).mask) ELSE t

\* t[mask0] / t[mask0, :][:, mask1] / t[:, mask1] with the masks of the two cuts.
Slice(t, c0, c1) ==
    LET a == IF c0.on
             THEN SelAxis0(t, get_pruning_mask(t.shape[1], c0.ix).mask) ELSE t
    IN  IF c1.on
        THEN SelAxis1(a, get_pruning_mask(t.shape[2], c1.ix).mask) ELSE a

\* The masks are built from _shape = _v['exp_avg'].shape before anything is
\* sliced: _shape[1] of a 1-D tensor and an index beyond the axis raise.
CutsApply(v, c) ==
    LET shape == v.exp_avg.shape
    IN  /\ c.c1.on => Len(shape) >= 2
        /\ c.c0.on => get_pruning_mask(shape[1], c.c0.ix).ok
        /\ c.c1.on => get_pruning_mask(shape[2], c.c1.ix).ok

\* The state entry after its exp_avg and exp_avg_sq are sliced.
PruneEntry(v, c) ==
    [v EXCEPT !.exp_avg = Slice(v.exp_avg, c.c0, c.c1),
              !.exp_avg_sq = Slice(v.exp_avg_sq, c.c0, c.c1)]

\* The loop of pruning over self.state.items(): k is the entry at hand, i the
\* counter _i (here 1-based), st the old mapping, whose entries are modified in
\* place, dict the mapping _dict under construction.
RECURSIVE PruneFrom(_, _, _, _, _, _)
PruneFrom(k, i, st, dict, ps, dec) ==
    IF k > Len(st) THEN [ok |-> TRUE, state |-> dict]
    ELSE IF i > Len(PruningList(ps)) THEN [ok |-> FALSE, state |-> st]
    ELSE LET pi == PruningList(ps)[i]
             c == PruningCuts(ps[pi].name, dec)
             v2 == PruneEntry(st[k].v, c)
         IN  IF c.kind = "continue" THEN PruneFrom(k + 1, i, st, dict, ps, dec)
             ELSE IF c.kind = "raise" \/ ~CutsApply(st[k].v, c)
             THEN [ok |-> FALSE, state |-> st]
             ELSE PruneFrom(k + 1, i + 1, [st EXCEPT ![k].v = v2],
                            Append(dict, [key |-> ps[pi].id, v |-> v2]), ps, dec)

\* param_groups[0]['params'] = param_list
PruningGroup(ps) == [i \in 1..Len(PruningList(ps)) |-> ps[PruningList(ps)[i]].id]

pruning(ps, st, dec) == PruneFrom(1, 1, st, <<>>, ps, dec)

---------------------------------------------------------------------------
(* Adam.step *)

\* A tensor of shape s can be an operand of an in-place operation on a tensor
\* of shape d (torch broadcasting).
CanBroadcast(s, d) ==
    /\ Len(s) <= Len(d)
    /\ \A k \in 1..Len(s) : s[Len(s) - k + 1] \in {1, d[Len(d) - k + 1]}

\* The entry of src that broadcasting pairs with position i (1-D) or (i, j) (2-D).
BAt1(src, i) == src.d[IF src.shape[1] = 1 THEN 1 ELSE i]

BAt2(src, i, j) ==
    IF Rank(src) = 1 THEN src.d[IF src.shape[1] = 1 THEN 1 ELSE j]
    ELSE src.d[IF src.shape[1] = 1 THEN 1 ELSE i][IF src.shape[2] = 1 THEN 1 ELSE j]

\* The elementwise updates of step, on moments scaled by 2^step (w = 2^(step-1)):
\* exp_avg.mul_(beta1).add_(grad), exp_avg_sq.mul_(beta2).addcmul_(grad, grad),
\* torch.max(max_exp_avg_sq, exp_avg_sq) and the move of the parameter against
\* the sign of exp_avg.
Update(f, w, x, y) ==
    CASE f = "add" -> x + w * y
      [] f = "addcmul" -> x + w * y * y
      [] f = "max" -> Max(2 * x, y)
      [] f = "addcdiv" -> x - Sign(y)

\* dst <- f(dst, src), elementwise and in place, src broadcast to dst.
MapB(f, w, dst, src) ==
    IF Rank(dst) = 1
    THEN [dst EXCEPT !.d = [i \in 1..dst.shape[1] |->
                              Update(f, w, dst.d[i], BAt1(src, i))]]
    ELSE [dst EXCEPT !.d = [i \in 1..dst.shape[1] |->
                              [j \in 1..dst.shape[2] |->
                                 Update(f, w, dst.d[i][j], BAt2(src, i, j))]]]

\* The position in ps of the parameter object id (0: none).
ParamOf(ps, id) ==
    IF \E i \in 1..Len(ps) : ps[i].id = id
    THEN CHOOSE i \in 1..Len(ps) : ps[i].id = id ELSE 0

\* The position in st of the entry keyed by id (0: none).
EntryOf(st, id) ==
    IF \E k \in 1..Len(st) : st[k].key = id
    THEN CHOOSE k \in 1..Len(st) : st[k].key = id ELSE 0

\* "State initialization" of step.
NewEntry(p, ams) ==
    IF ams
    THEN [step |-> 0, exp_avg |-> ZerosLike(p.data), exp_avg_sq |-> ZerosLike(p.data),
          max_exp_avg_sq |-> ZerosLike(p.data)]
    ELSE [step |-> 0, exp_avg |-> ZerosLike(p.data), exp_avg_sq |-> ZerosLike(p.data)]

\* The moment arithmetic of step for one parameter, with betas = (1/2, 1/2): the
\* stored numbers are the moments times 2^step, so that
\*   exp_avg    = (exp_avg + grad) / 2         is  E' = E + 2^(step-1) * grad,
\*   exp_avg_sq = (exp_avg_sq + grad^2) / 2    is  S' = S + 2^(step-1) * grad^2,
\*   max(max_exp_avg_sq, exp_avg_sq)           is  M' = max(2 * M, S').
\* The parameter moves against the sign of exp_avg (step_size and denom are
\* positive); the size of the move is abstracted to one unit.
\* ok = FALSE when an in-place operation raises on operand shapes.
Moments(p, v0, ams) ==
    LET v1 == [v0 EXCEPT !.step = @ + 1]
        w == Pow2(v1.step - 1)
        e == MapB("add", w, v1.exp_avg, p.grad)
        s == MapB("addcmul", w, v1.exp_avg_sq, p.grad)
        v2 == [v1 EXCEPT !.exp_avg = e, !.exp_avg_sq = s]
        m == MapB("max", w, v1.max_exp_avg_sq, s)
        v3 == IF ams THEN [v2 EXCEPT !.max_exp_avg_sq = m] ELSE v2
        dshape == IF ams THEN v1.max_exp_avg_sq.shape ELSE v1.exp_avg_sq.shape
        data == MapB("addcdiv", w, p.data, e)
    IN  IF ~CanBroadcast(p.grad.shape, v1.exp_avg.shape)
        THEN [ok |-> FALSE, v |-> v1, data |-> p.data]
        ELSE IF ams /\ ~CanBroadcast(s.shape, v1.max_exp_avg_sq.shape)
        THEN [ok |-> FALSE, v |-> v2, data |-> p.data]
        ELSE IF ~(CanBroadcast(e.shape, p.data.shape)
                  /\ CanBroadcast(dshape, p.data.shape))
        THEN [ok |-> FALSE, v |-> v3, data |-> p.data]
        ELSE [ok |-> TRUE, v |-> v3, data |-> data]

\* The loop of step over group["params"], from the j-th on.  self.state[p]
\* makes the entry while the mapping is the defaultdict, and raises KeyError
\* once pruning has replaced it by a plain dict.
RECURSIVE StepFrom(_, _, _, _, _, _)
StepFrom(j, gp, ps, st, lazy, ams) ==
    IF j > Len(gp) THEN [ok |-> TRUE, params |-> ps, state |-> st]
    ELSE LET pi == ParamOf(ps, gp[j])
             k == EntryOf(st, gp[j])
             st1 == IF k = 0
                    THEN Append(st, [key |-> gp[j], v |-> NewEntry(ps[pi], ams)])
                    ELSE st
             k1 == IF k = 0 THEN Len(st1) ELSE k
             r == Moments(ps[pi], st1[k1].v, ams)
             st2 == [st1 EXCEPT ![k1].v = r.v]
             ps2 == [ps EXCEPT ![pi].data = r.data]
         IN  IF IsNone(ps[pi].grad) THEN StepFrom(j + 1, gp, ps, st, lazy, ams)
             ELSE IF k = 0 /\ ~lazy THEN [ok |-> FALSE, params |-> ps, state |-> st]
             ELSE IF ~r.ok THEN [ok |-> FALSE, params |-> ps2, state |-> st2]
             ELSE StepFrom(j + 1, gp, ps2, st2, lazy, ams)

step(gp, ps, st, lazy, ams) == StepFrom(1, gp, ps, st, lazy, ams)

---------------------------------------------------------------------------
(* model.pruning(): the model's half of a hard prune.  Its code is not part of *)
(* the sources at hand; it is modelled from sections 4.1 and 4.4 of the        *)
(* specification.                                                             *)

\* The structural roles whose pattern the name matches.
SpecRoles(n) ==
    (IF Has(n, "embed_tokens") THEN {"embedding"} ELSE {})
    \cup (IF Has(n, "layer_norm") THEN {"layer-norm"} ELSE {})
    \cup (IF Has(n, "fc") THEN {"feed-forward"} ELSE {})
    \cup (IF Has(n, "q_proj") \/ Has(n, "k_proj") \/ Has(n, "v_proj")
             \/ Has(n, "out_proj")
          THEN {"attention-projection"} ELSE {})

\* Ordinary trainable parameters: no gate vector, not the output projection.
SpecOrdinary(p) ==
    ~EndsWithC(p.name) /\ p.requires_grad /\ ~Has(p.name, "output_projection")

\* The role table of section 4.1: the index lists dropped from axis 0 and axis 1;
\* a classification error when the name matches no role or more than one.
SpecCuts(n, dec) ==
    IF Cardinality(SpecRoles(n)) # 1 THEN Raise
    ELSE IF "embedding" \in SpecRoles(n)
    THEN Cuts(NoCut, Cut(PdGet(dec, <<n[1], "embedding_c">>)))
    ELSE IF "layer-norm" \in SpecRoles(n)
    THEN Cuts(Cut(PdGet(dec, <<n[1], "embedding_c">>)), NoCut)
    ELSE IF "feed-forward" \in SpecRoles(n)
    THEN IF Len(n) < 5 THEN Raise
         ELSE LET g == PdGet(dec, <<n[1], "embedding_c">>)
                  l == PdGet(dec, LocalKey(n[1], n[3], "fc_c"))
              IN  IF Has(n, "fc2")
                  THEN IF Has(n, "bias") THEN Cuts(Cut(g), NoCut)
                       ELSE Cuts(Cut(g), Cut(l))
                  ELSE IF Has(n, "bias") THEN Cuts(Cut(l), NoCut)
                       ELSE Cuts(Cut(l), Cut(g))
    ELSE IF Len(n) < 6 THEN Raise
         ELSE LET self == Has(n, "self_attn")
                  qk == Has(n, "q_proj") \/ Has(n, "k_proj")
                  g == PdGet(dec,
                         IF self \/ Has(n, "out_proj") THEN <<n[1], "embedding_c">>
                         ELSE IF Has(n, "q_proj") THEN DecG ELSE EncG)
                  l == PdGet(dec, LocalKey(n[1], n[3],
                         IF self THEN (IF qk THEN "self_attn_qk_c" ELSE "self_attn_vo_c")
                         ELSE (IF qk THEN "encoder_attn_qk_c" ELSE "encoder_attn_vo_c")))
              IN  IF Has(n, "out_proj")
                  THEN IF Has(n, "bias") THEN Cuts(Cut(g), NoCut)
                       ELSE Cuts(Cut(g), Cut(l))
                  ELSE IF Has(n, "bias") THEN Cuts(Cut(l), NoCut)
                       ELSE Cuts(Cut(l), Cut(g))

\* The cuts address the tensor's axes (no stale index).
SpecCutsFit(t, c) ==
    /\ c.kind = "cut"
    /\ c.c1.on => Rank(t) >= 2
    /\ c.c0.on => InRange(c.c0.ix, t.shape[1])
    /\ c.c1.on => InRange(c.c1.ix, t.shape[2])

\* Every ordinary parameter is replaced by a new, smaller parameter object (its
\* gradient, if present, cut alike); a fatal error changes nothing.
model_pruning(ps, dec) ==
    IF \A i \in 1..Len(ps) :
          SpecOrdinary(ps[i]) => SpecCutsFit(ps[i].data, SpecCuts(ps[i].name, dec))
    THEN [ok |-> TRUE,
          params |-> [i \in 1..Len(ps) |->
             IF ~SpecOrdinary(ps[i]) THEN ps[i]
             ELSE LET c == SpecCuts(ps[i].name, dec)
                  IN  [ps[i] EXCEPT
                         !.id = @ + Len(ps),
                         !.data = Slice(@, c.c0, c.c1),
                         !.grad = IF IsNone(@) THEN @ ELSE Slice(@, c.c0, c.c1)]]]
    ELSE [ok |-> FALSE, params |-> ps]

---------------------------------------------------------------------------
(* The state machine *)

Snapshot == [params |-> params, state |-> state, groupParams |-> groupParams]

NoCheckpoint == [has |-> FALSE]

\* The optimizer is driven call by call, outside of main().
NoLoop ==
    /\ cfg = [srp |-> TRUE, decreasing |-> "e", pruning_stage |-> 1,
              sched |-> "single", save_updates |-> FALSE]
    /\ loc = "calls"
    /\ epoch_itr = [epoch |-> 1, pos |-> 0]
    /\ is_first_epoch = TRUE
    /\ epoch = 0
    /\ phase = "warming-up"
    /\ do_pruning = FALSE
    /\ gate_c = 0
    /\ pd_uses = 0
    /\ log = <<>>
    /\ ck = NoCheckpoint
    /\ run = "fresh"

Did(op, ok) == [op |-> op, ok |-> ok, prev |-> last.op]

\* Adam.__init__ over the trainable parameters of one of the models, with a
\* Removal Decision in place and no optimizer state yet.
Init ==
    /\ \E mi \in 1..Len(Models) :
        LET m == Models[mi]
        IN
          /\ params = [i \in 1..Len(m) |->
                         [name |-> m[i].name, requires_grad |-> m[i].requires_grad,
                          id |-> i, data |-> Ramp(m[i].shape, 1), grad |-> NoGrad]]
          /\ groupParams = SelectSeq([i \in 1..Len(m) |-> i],
                                     LAMBDA i : m[i].requires_grad)
    /\ \E di \in 1..Len(Decisions) : pd = Decisions[di]
    /\ amsgrad \in BOOLEAN
    /\ state = <<>>
    /\ lazyState = TRUE
    /\ pc = "ready"
    /\ nops = 0
    /\ last = [op |-> "init", ok |-> TRUE, prev |-> "init"]
    /\ old = [params |-> <<>>, state |-> <<>>, groupParams |-> <<>>]
    /\ NoLoop

\* The forward/backward pass of a training step: every trainable parameter gets
\* a gradient, except the skip-th one when it is left out of the graph.
Backward ==
    /\ pc = "ready"
    /\ nops < MaxOps
    /\ \E skip \in 0..MaxSkip :
          params' = [i \in 1..Len(params) |->
                       [params[i] EXCEPT !.grad =
                           IF params[i].requires_grad /\ i # skip
                           THEN Ramp(params[i].data.shape, 1) ELSE NoGrad]]
    /\ pc' = "grads"
    /\ nops' = nops + 1
    /\ last' = Did("backward", TRUE)
    /\ old' = Snapshot
    /\ UNCHANGED <<pd, state, groupParams, amsgrad, lazyState>>
    /\ UNCHANGED loopVars

\* Adam.remove_grads(_model)
RemoveGrads ==
    /\ pc = "grads"
    /\ nops < MaxOps
    /\ LET r == remove_grads(params, state, pd)
       IN  /\ params' = r.params
           /\ state' = r.state
           /\ pc' = IF r.ok THEN "grads" ELSE "failed"
           /\ last' = Did("remove_grads", r.ok)
    /\ nops' = nops + 1
    /\ old' = Snapshot
    /\ UNCHANGED <<pd, groupParams, amsgrad, lazyState>>
    /\ UNCHANGED loopVars

\* Adam.step()
Step ==
    /\ pc = "grads"
    /\ nops < MaxOps
    /\ LET r == step(groupParams, params, state, lazyState, amsgrad)
       IN  /\ params' = r.params
           /\ state' = r.state
           /\ pc' = IF r.ok THEN "ready" ELSE "failed"
           /\ last' = Did("step", r.ok)
    /\ nops' = nops + 1
    /\ old' = Snapshot
    /\ UNCHANGED <<pd, groupParams, amsgrad, lazyState>>
    /\ UNCHANGED loopVars

\* trainer.model.pruning(), the first half of the hard prune of train()
ModelPruning ==
    /\ pc = "ready"
    /\ nops < MaxOps
    /\ LET r == model_pruning(params, pd)
       IN  /\ params' = r.params
           /\ pc' = IF r.ok THEN "pruning" ELSE "failed"
           /\ last' = Did("model_pruning", r.ok)
    /\ nops' = nops + 1
    /\ old' = Snapshot
    /\ UNCHANGED <<pd, state, groupParams, amsgrad, lazyState>>
    /\ UNCHANGED loopVars

\* The effect of Adam.pruning(_model) on the optimizer.
PruningCall(op, pcOk) ==
    LET r == pruning(params, state, pd)
    IN  /\ groupParams' = PruningGroup(params)
        /\ state' = r.state
        /\ lazyState' = IF r.ok THEN FALSE ELSE lazyState
        /\ pc' = IF r.ok THEN pcOk ELSE "failed"
        /\ last' = Did(op, r.ok)
        /\ nops' = nops + 1
        /\ old' = Snapshot
        /\ UNCHANGED <<params, pd, amsgrad>>
        /\ UNCHANGED loopVars

\* trainer.optimizer._optimizer.pruning(trainer.model), the second half of the
\* hard prune of train()
AdamPruning ==
    /\ pc = "pruning"
    /\ PruningCall("hard_prune", "ready")

\* Adam.pruning(_model) called on its own, on the optimizer as it stands; the
\* run ends with the call.
UnitPruning ==
    /\ pc \in {"ready", "grads"}
    /\ nops < MaxOps
    /\ state # <<>>
    /\ PruningCall("pruning", "done")

Next ==
    \/ Backward
    \/ RemoveGrads
    \/ Step
    \/ ModelPruning
    \/ AdamPruning
    \/ UnitPruning

Spec == Init /\ [][Next]_vars

---------------------------------------------------------------------------
(* The training loop: main() and train() of pruning.py.  The pruning manager   *)
(* (pm.get, pm.get_phase, the scoring that fills pruning_dict), the gate decay *)
(* (model.decrease_c), model.update_pos_emb_mask and trainer.train_step are not *)
(* part of the sources at hand; they are modelled from sections 3, 4.2, 4.3,    *)
(* 4.5 and 6 of the specification.                                              *)

\* pm.get_phase(_epoch): the phase of an epoch and whether the epoch ends with a
\* hard prune.  "single": one warm-up epoch, one pruning epoch that ends with the
\* prune, fine-tuning from then on.  "staged": the pruning phase from the first
\* epoch on, with a prune point at the end of every epoch from the second on.
get_phase(sched, e) ==
    IF sched = "single"
    THEN [phase |-> IF e <= 1 THEN "warming-up"
                    ELSE IF e = 2 THEN "pruning" ELSE "fine-tuning",
          do_pruning |-> (e = 2)]
    ELSE [phase |-> "pruning", do_pruning |-> (e >= 2)]

\* pm.get(stage) returns the sentinel -1 ("already set") when the pruning
\* manager, restored from a checkpoint, holds the decision of the stage.
PmGetSentinel(r) == r # "fresh"

\* The backward pass of a training step: every trainable parameter receives a
\* gradient of its shape.
WithGrads(ps) ==
    [i \in 1..Len(ps) |->
        [ps[i] EXCEPT !.grad = IF ps[i].requires_grad
                               THEN Ramp(ps[i].data.shape, 1) ELSE NoGrad]]

\* The optimizer step that follows the neutralizer, unless the neutralizer
\* raised.
StepAfter(r1, gp, lazy, ams) ==
    IF ~r1.ok THEN [ok |-> FALSE, params |-> r1.params, state |-> r1.state]
    ELSE step(gp, r1.params, r1.state, lazy, ams)

\* trainer.train_step(samples, scoring=False): the backward pass, the
\* neutralizer, and the optimizer step.
train_step(gp, ps, st, dec, lazy, ams) ==
    StepAfter(remove_grads(WithGrads(ps), st, dec), gp, lazy, ams)

\* Mutant of end_of_epoch: the iterator reports its end after every batch.
EndAfterEveryBatch(pos) == pos >= 1

\* end_of_epoch = not itr.has_next()
end_of_epoch(pos) == pos >= BatchesPerEpoch

\* epoch_itr.next_epoch_idx
next_epoch_idx(it) == IF end_of_epoch(it.pos) THEN it.epoch + 1 ELSE it.epoch

\* Mutant of DecayAtBegin: the epoch-wise decay does not look at the phase.
DecayAtBeginAnyPhase(c, ph) == c.decreasing = "e"

\* The gate decay of the head of train(): once per call, in the pruning phase,
\* with the epoch cadence.
DecayAtBegin(c, ph) == ph = "pruning" /\ c.decreasing = "e"

\* The gate decay of the loop body of train(): before each step, in the pruning
\* phase, with the step cadence.
DecayAtStep(c, ph) == c.decreasing = "s" /\ ph = "pruning"

Logged(ev) == log' = Append(log, ev)

\* The variables of the optimizer and of the model that an action of the loop
\* leaves alone.
Quiet ==
    /\ last' = Did("loop", TRUE) /\ old' = Snapshot
    /\ UNCHANGED <<params, state, groupParams, lazyState, amsgrad, pc, nops>>

\* The process starts: the trainer and its optimizer are built for one of the
\* models; no checkpoint is there to load.
TrainInit ==
    /\ \E mi \in 1..Len(Models) :
        LET m == Models[mi]
        IN
          /\ params = [i \in 1..Len(m) |->
                         [name |-> m[i].name, requires_grad |-> m[i].requires_grad,
                          id |-> i, data |-> Ramp(m[i].shape, 1), grad |-> NoGrad]]
          /\ groupParams = SelectSeq([i \in 1..Len(m) |-> i],
                                     LAMBDA i : m[i].requires_grad)
    /\ pd = NoDecision
    /\ amsgrad = FALSE
    /\ state = <<>>
    /\ lazyState = TRUE
    /\ pc = "ready"
    /\ nops = 0
    /\ last = [op |-> "init", ok |-> TRUE, prev |-> "init"]
    /\ old = [params |-> <<>>, state |-> <<>>, groupParams |-> <<>>]
    /\ cfg \in [srp : BOOLEAN, decreasing : {"e", "s"}, pruning_stage : {1, 2},
                 sched : {"single", "staged"}, save_updates : BOOLEAN]
    /\ loc = "main"
    /\ epoch_itr = [epoch |-> 1, pos |-> 0]
    /\ is_first_epoch = TRUE
    /\ epoch = 0
    /\ phase = "warming-up"
    /\ do_pruning = FALSE
    /\ gate_c = 0
    /\ pd_uses = 0
    /\ log = <<>>
    /\ ck = NoCheckpoint
    /\ run = "fresh"

\* main(), SRP branch: the scoring pass and the Removal Decision of the stage,
\* kept as it is when pm.get returns the sentinel.
Scoring ==
    /\ loc = "main" /\ cfg.srp
    /\ phase' = "pruning"
    /\ IF PmGetSentinel(run)
       THEN UNCHANGED <<pd, pd_uses>>
       ELSE /\ \E di \in 1..Len(Decisions) : pd' = Decisions[di]
            /\ pd_uses' = 0
    /\ Logged("scoring")
    /\ loc' = "epoch_top"
    /\ Quiet
    /\ UNCHANGED <<cfg, epoch_itr, is_first_epoch, epoch, do_pruning, gate_c, ck, run>>

\* main(), one-shot branch: the scoring pass and the Removal Decision.
OneShotScoring ==
    /\ loc = "main" /\ ~cfg.srp
    /\ phase' = "pruning"
    /\ \E di \in 1..Len(Decisions) : pd' = Decisions[di]
    /\ pd_uses' = 0
    /\ Logged("scoring")
    /\ loc' = "oneshot"
    /\ Quiet
    /\ UNCHANGED <<cfg, epoch_itr, is_first_epoch, epoch, do_pruning, gate_c, ck, run>>

\* main(), one-shot branch: trainer.model.pruning(); the call of Adam.pruning is
\* commented out.
OneShotModelPruning ==
    /\ loc = "oneshot"
    /\ \E r \in {model_pruning(params, pd)} :
           /\ params' = r.params
           /\ loc' = IF r.ok THEN "oneshot_pruned" ELSE "failed"
           /\ last' = Did("model_pruning", r.ok)
    /\ old' = Snapshot
    /\ Logged("model_pruning")
    /\ UNCHANGED <<pd, state, groupParams, lazyState, amsgrad, pc, nops>>
    /\ UNCHANGED <<cfg, epoch_itr, is_first_epoch, epoch, phase, do_pruning,
                   gate_c, pd_uses, ck, run>>

\* main(), one-shot branch: update_pos_emb_mask, a second scoring pass, the
\* checkpoint of the pruned model, and the return.
OneShotFinish ==
    /\ loc = "oneshot_pruned"
    /\ log' = log \o <<"update_pos_emb_mask", "scoring", "save_checkpoint">>
    /\ ck' = [has |-> TRUE, params |-> params, state |-> state,
              groupParams |-> groupParams, pd |-> pd, gate_c |-> gate_c,
              pd_uses |-> pd_uses, epoch_itr |-> epoch_itr, epoch |-> epoch,
              phase |-> phase, do_pruning |-> do_pruning]
    /\ loc' = "exit"
    /\ Quiet
    /\ UNCHANGED <<pd, cfg, epoch_itr, is_first_epoch, epoch, phase, do_pruning,
                   gate_c, pd_uses, run>>

\* The head of the epoch loop of main(): _epoch and the phase lookup.
GetPhase ==
    /\ loc = "epoch_top"
    /\ next_epoch_idx(epoch_itr) <= MaxEpoch
    /\ LET e == IF is_first_epoch THEN epoch_itr.epoch ELSE epoch_itr.epoch + 1
       IN  /\ epoch' = e
           /\ phase' = get_phase(cfg.sched, e).phase
           /\ do_pruning' = get_phase(cfg.sched, e).do_pruning
    /\ is_first_epoch' = FALSE
    /\ log' = <<"get_phase">>
    /\ loc' = "train"
    /\ Quiet
    /\ UNCHANGED <<pd, cfg, epoch_itr, gate_c, pd_uses, ck, run>>

\* The epoch loop of main() ends.
Finish ==
    /\ loc = "epoch_top"
    /\ next_epoch_idx(epoch_itr) > MaxEpoch
    /\ loc' = "exit"
    /\ Quiet
    /\ UNCHANGED <<pd, cfg, epoch_itr, is_first_epoch, epoch, phase, do_pruning,
                   gate_c, pd_uses, log, ck, run>>

\* The head of train(): the iterator of the epoch (the rest of the epoch when a
\* checkpoint taken inside it was loaded) and the epoch-wise gate decay.
TrainBegin ==
    /\ loc = "train"
    /\ epoch_itr' = IF epoch_itr.pos > 0 /\ ~end_of_epoch(epoch_itr.pos)
                    THEN epoch_itr
                    ELSE [epoch |-> next_epoch_idx(epoch_itr), pos |-> 0]
    /\ IF DecayAtBegin(cfg, phase)
       THEN gate_c' = gate_c + 1 /\ Logged("decrease_c")
       ELSE UNCHANGED <<gate_c, log>>
    /\ loc' = "batch"
    /\ Quiet
    /\ UNCHANGED <<pd, cfg, is_first_epoch, epoch, phase, do_pruning, pd_uses, ck, run>>

\* One pass of the loop of train() up to the end-of-epoch test: the step-wise
\* gate decay and trainer.train_step.
TrainStep ==
    /\ loc = "batch"
    /\ \E r \in {train_step(groupParams, params, state, pd, lazyState, amsgrad)} :
           /\ params' = r.params
           /\ state' = r.state
           /\ last' = Did("train_step", r.ok)
           /\ loc' = IF ~r.ok THEN "failed"
                     ELSE IF end_of_epoch(epoch_itr.pos + 1) /\ do_pruning
                     THEN "prune" ELSE "validate"
    /\ old' = Snapshot
    /\ epoch_itr' = [epoch_itr EXCEPT !.pos = @ + 1]
    /\ IF DecayAtStep(cfg, phase)
       THEN gate_c' = gate_c + 1 /\ log' = log \o <<"decrease_c", "train_step">>
       ELSE gate_c' = gate_c /\ Logged("train_step")
    /\ run' = IF run = "resuming" THEN "resumed" ELSE run
    /\ UNCHANGED <<pd, groupParams, lazyState, amsgrad, pc, nops>>
    /\ UNCHANGED <<cfg, is_first_epoch, epoch, phase, do_pruning, pd_uses, ck>>

\* train(): trainer.model.pruning()
TrainModelPruning ==
    /\ loc = "prune"
    /\ \E r \in {model_pruning(params, pd)} :
           /\ params' = r.params
           /\ loc' = IF r.ok THEN "adam_pruning" ELSE "failed"
           /\ last' = Did("model_pruning", r.ok)
    /\ old' = Snapshot
    /\ Logged("model_pruning")
    /\ UNCHANGED <<pd, state, groupParams, lazyState, amsgrad, pc, nops>>
    /\ UNCHANGED <<cfg, epoch_itr, is_first_epoch, epoch, phase, do_pruning,
                   gate_c, pd_uses, ck, run>>

\* train(): trainer.optimizer._optimizer.pruning(trainer.model)
TrainAdamPruning ==
    /\ loc = "adam_pruning"
    /\ \E r \in {pruning(params, state, pd)} :
           /\ groupParams' = PruningGroup(params)
           /\ state' = r.state
           /\ lazyState' = IF r.ok THEN FALSE ELSE lazyState
           /\ last' = Did("hard_prune", r.ok)
           /\ pd_uses' = IF r.ok THEN pd_uses + 1 ELSE pd_uses
           /\ loc' = IF ~r.ok THEN "failed"
                     ELSE IF cfg.pruning_stage # 2 THEN "mask" ELSE "validate"
    /\ old' = Snapshot
    /\ Logged("adam_pruning")
    /\ UNCHANGED <<params, pd, amsgrad, pc, nops>>
    /\ UNCHANGED <<cfg, epoch_itr, is_first_epoch, epoch, phase, do_pruning,
                   gate_c, ck, run>>

\* train(): trainer.model.update_pos_emb_mask()
UpdatePosEmbMask ==
    /\ loc = "mask"
    /\ Logged("update_pos_emb_mask")
    /\ loc' = "validate"
    /\ Quiet
    /\ UNCHANGED <<pd, cfg, epoch_itr, is_first_epoch, epoch, phase, do_pruning,
                   gate_c, pd_uses, ck, run>>

\* validate_and_save: a checkpoint at the end of every epoch (save_interval = 1)
\* and, with save_interval_updates = 1, after every update; should_stop ends the
\* run after the checkpoint.
ValidateAndSave ==
    /\ loc = "validate"
    /\ \E should_stop \in BOOLEAN :
          LET do_save == end_of_epoch(epoch_itr.pos) \/ should_stop \/ cfg.save_updates
          IN  /\ log' = log \o (IF do_save THEN <<"validate", "save_checkpoint">>
                                ELSE <<"validate">>)
              /\ ck' = IF do_save
                       THEN [has |-> TRUE, params |-> params, state |-> state,
                             groupParams |-> groupParams, pd |-> pd,
                             gate_c |-> gate_c, pd_uses |-> pd_uses,
                             epoch_itr |-> epoch_itr, epoch |-> epoch,
                             phase |-> phase, do_pruning |-> do_pruning]
                       ELSE ck
              /\ loc' = IF should_stop THEN "exit"
                        ELSE IF end_of_epoch(epoch_itr.pos) THEN "epoch_top"
                        ELSE "batch"
    /\ Quiet
    /\ UNCHANGED <<pd, cfg, epoch_itr, is_first_epoch, epoch, phase, do_pruning,
                   gate_c, pd_uses, run>>

TrainNext ==
    \/ Scoring
    \/ OneShotScoring
    \/ OneShotModelPruning
    \/ OneShotFinish
    \/ GetPhase
    \/ Finish
    \/ TrainBegin
    \/ TrainStep
    \/ TrainModelPruning
    \/ TrainAdamPruning
    \/ UpdatePosEmbMask
    \/ ValidateAndSave

\* An uninterrupted run of main().
TrainSpec == TrainInit /\ [][TrainNext]_vars

\* The process is stopped at any point after a checkpoint was written, and
\* main() is started again: load_checkpoint restores the model with its gate
\* values, the optimizer state and the position of the iterator, and the
\* pruning manager with its Removal Decision is installed again from the extra
\* state.  The locals of main() start afresh.
Resume ==
    /\ ck.has /\ run = "fresh"
    /\ params' = ck.params
    /\ state' = ck.state
    /\ groupParams' = ck.groupParams
    /\ lazyState' = TRUE
    /\ pd' = ck.pd
    /\ pd_uses' = ck.pd_uses
    /\ gate_c' = ck.gate_c
    /\ phase' = ck.phase
    /\ epoch_itr' = IF end_of_epoch(ck.epoch_itr.pos)
                    THEN [epoch |-> ck.epoch_itr.epoch + 1, pos |-> 0]
                    ELSE ck.epoch_itr
    /\ is_first_epoch' = TRUE
    /\ epoch' = 0
    /\ do_pruning' = FALSE
    /\ log' = <<>>
    /\ loc' = "main"
    /\ run' = "resuming"
    /\ last' = Did("resume", TRUE) /\ old' = Snapshot
    /\ UNCHANGED <<amsgrad, pc, nops, cfg, ck>>

ResumeNext == TrainNext \/ Resume

\* A run of main() that may be stopped and resumed once from its last
\* checkpoint.
ResumeSpec == TrainInit /\ [][ResumeNext]_vars

---------------------------------------------------------------------------
(* The Removal Decision that main() builds from the stage lookup.  The getters *)
(* of the pruning manager are not part of the sources at hand; they are        *)
(* modelled from sections 3 and 6 of the specification: one key per gate       *)
(* vector of the family, mapped to as many indices as the count asks for.      *)

\* A model with a gate vector of every family.
GatedModel == <<
    P(<<"decoder", "layers", "0", "self_attn", "q_proj", "weight">>, TRUE, <<QkDim, EmbedDim>>),
    P(<<"decoder", "layers", "0", "self_attn", "v_proj", "weight">>, TRUE, <<VoDim, EmbedDim>>),
    P(<<"decoder", "layers", "0", "fc1", "weight">>, TRUE, <<FcDim, EmbedDim>>),
    P(<<"encoder", "embedding_c">>, FALSE, <<EmbedDim>>),
    P(<<"decoder", "embedding_c">>, FALSE, <<EmbedDim>>),
    P(<<"decoder", "layers", "0", "fc_c">>, FALSE, <<FcDim>>),
    P(<<"decoder", "layers", "0", "self_attn_qk_c">>, FALSE, <<QkDim>>),
    P(<<"decoder", "layers", "0", "self_attn_vo_c">>, FALSE, <<VoDim>>) >>

GateModels == <<GatedModel, FfnModel, AttnModel>>

\* The largest count a stage lookup returns for a family.
MaxCount == 2

\* The indices the scoring selects when asked for n of them.
Selected(n) == [i \in 1..n |-> i - 1]

\* The names of the gate vectors of the model whose last component is one of
\* the given ones.
GateKeys(ps, ends) ==
    {ps[i].name : i \in {j \in 1..Len(ps) : ps[j].name[Len(ps[j].name)] \in ends}}

\* pm.get_fc_dict(model, n)
get_fc_dict(ps, n) == [k \in GateKeys(ps, {"fc_c"}) |-> Selected(n)]

\* pm.get_global_dict(model, n, side)
get_global_dict(ps, n, side) ==
    [k \in GateKeys(ps, {"embedding_c"}) \cap {<<side, "embedding_c">>} |-> Selected(n)]

\* pm.get_qkvo_dict(model, n, kind)
get_qkvo_dict(ps, n, kind) ==
    [k \in GateKeys(ps, IF kind = "qk" THEN {"self_attn_qk_c", "encoder_attn_qk_c"}
                                        ELSE {"self_attn_vo_c", "encoder_attn_vo_c"})
        |-> Selected(n)]

\* dict.update: the entries of b replace those of a.
DictUpdate(a, b) == b @@ a

\* Mutant of NewDict: the decision is built on top of the previous one.
PreviousDict(prev) == prev

\* pruning_dict = {}
NewDict(prev) == NoDecision

\* The five updates of main(); the count qk is passed to the getter of the qk
\* family and to the getter of the vo family.
BuildDecision(ps, prev, got) ==
    DictUpdate(DictUpdate(DictUpdate(DictUpdate(DictUpdate(NewDict(prev),
        get_fc_dict(ps, got.fc)),
        get_global_dict(ps, got.gle, "encoder")),
        get_global_dict(ps, got.gld, "decoder")),
        get_qkvo_dict(ps, got.qk, "qk")),
        get_qkvo_dict(ps, got.qk, "vo"))

\* The results of pm.get: the sentinel, or one count per family.
Lookups(first) ==
    [gle : first, gld : 0..MaxCount, fc : 0..MaxCount, qk : 0..MaxCount, vo : 0..MaxCount]

\* main() has loaded the model; the pruning manager holds a Removal Decision
\* of an earlier start or none.
DecisionInit ==
    /\ \E mi \in 1..Len(GateModels) :
        LET m == GateModels[mi]
        IN
          /\ params = [i \in 1..Len(m) |->
                         [name |-> m[i].name, requires_grad |-> m[i].requires_grad,
                          id |-> i, data |-> Ramp(m[i].shape, 1), grad |-> NoGrad]]
          /\ groupParams = SelectSeq([i \in 1..Len(m) |-> i],
                                     LAMBDA i : m[i].requires_grad)
    /\ \E di \in 1..Len(Decisions) : pd = Decisions[di]
    /\ amsgrad = FALSE
    /\ state = <<>>
    /\ lazyState = TRUE
    /\ pc = "ready"
    /\ nops = 0
    /\ last = [op |-> "init", ok |-> TRUE, prev |-> "init"]
    /\ old = [params |-> <<>>, state |-> <<>>, groupParams |-> <<>>]
    /\ cfg \in [srp : BOOLEAN, decreasing : {"e"}, pruning_stage : {1, 2},
                 sched : {"single"}, save_updates : {FALSE}]
    /\ loc = "main"
    /\ epoch_itr = [epoch |-> 1, pos |-> 0]
    /\ is_first_epoch = TRUE
    /\ epoch = 0
    /\ phase = "warming-up"
    /\ do_pruning = FALSE
    /\ gate_c = 0
    /\ pd_uses = 0
    /\ log = <<>>
    /\ ck = NoCheckpoint
    /\ run = "fresh"

\* What a stage lookup leaves alone; the result of the lookup and the decision
\* it found are kept in last.
LookedUp(got) ==
    /\ last' = [op |-> "stage_lookup", ok |-> TRUE, prev |-> last.op,
                got |-> got, pd |-> pd]
    /\ old' = Snapshot
    /\ phase' = "pruning"
    /\ pd_uses' = 0
    /\ Logged("scoring")
    /\ loc' = "looked_up"
    /\ UNCHANGED <<params, state, groupParams, lazyState, amsgrad, pc, nops>>
    /\ UNCHANGED <<cfg, epoch_itr, is_first_epoch, epoch, do_pruning, gate_c, ck, run>>

\* main(), SRP branch: pm.get(pruning_stage) and, unless it returns the
\* sentinel, the new pruning_dict.
StageLookup ==
    /\ loc = "main" /\ cfg.srp
    /\ \E got \in Lookups({-1} \cup 0..MaxCount) :
          /\ pd' = IF got.gle = -1 THEN pd ELSE BuildDecision(params, pd, got)
          /\ LookedUp(got)

\* main(), one-shot branch: pm.get() and the new pruning_dict.
OneShotLookup ==
    /\ loc = "main" /\ ~cfg.srp
    /\ \E got \in Lookups(0..MaxCount) :
          /\ pd' = BuildDecision(params, pd, got)
          /\ LookedUp(got)

DecisionNext == StageLookup \/ OneShotLookup

\* The start-up of main() up to the assignment of the Removal Decision.
DecisionSpec == DecisionInit /\ [][DecisionNext]_vars

---------------------------------------------------------------------------
(* Properties *)

PruneOps == {"pruning", "hard_prune"}

\* The name Adam.pruning and Adam.remove_grads use for the k-th state entry.
NameAt(ps, list, k) == ps[list[k]].name

\* The tensors of a state entry.
EntryTensors(v) ==
    {v.exp_avg, v.exp_avg_sq}
    \cup (IF "max_exp_avg_sq" \in DOMAIN v THEN {v.max_exp_avg_sq} ELSE {})

\* C1 (Shape invariant): after a completed remove_grads and after a completed hard
\* prune (model.pruning() followed by Adam.pruning(model)), every tensor of the
\* state entry of every parameter has the parameter's current shape.
C1_ShapeInvariant ==
    (last.op \in {"remove_grads", "hard_prune"} /\ last.ok) =>
        \A k \in 1..Len(state) :
            LET pi == ParamOf(params, state[k].key)
            IN  pi # 0 =>
                  \A t \in EntryTensors(state[k].v) : t.shape = params[pi].data.shape

\* Every group key a name of the models can resolve to.
AllKeys ==
    {EncG, DecG}
    \cup {LocalKey(e, "0", g) : e \in {"encoder", "decoder"},
                                g \in {"fc_c", "self_attn_qk_c", "self_attn_vo_c",
                                       "encoder_attn_qk_c", "encoder_attn_vo_c"}}

\* The decision with every absent key made explicit as an empty index list.
Completed(dec) == [k \in AllKeys \cup DOMAIN dec |-> PdGet(dec, k)]

\* C2 (Missing-key tolerance): remove_grads and pruning treat a key absent from
\* the Removal Decision as an empty index list: the call ends as it would have
\* ended with the key present and mapped to the empty list, and raises no error
\* that this completed decision would not raise.
C2_MissingKeyTolerance ==
    /\ last.op = "remove_grads" =>
          LET r == remove_grads(old.params, old.state, Completed(pd))
          IN  last.ok = r.ok /\ state = r.state /\ params = r.params
    /\ last.op \in PruneOps =>
          LET r == pruning(old.params, old.state, Completed(pd))
          IN  last.ok = r.ok /\ state = r.state

\* The tensors of the state entries, in iteration order.
StateTensors(st) == [k \in 1..Len(st) |-> st[k].v]

\* The value and gradient tensors of the parameters.
ParamTensors(ps) == [i \in 1..Len(ps) |-> <<ps[i].data, ps[i].grad>>]

\* C3 (Empty-decision no-op): with pruning_dict = {}, remove_grads and pruning
\* complete without error and leave every parameter, gradient and optimizer-state
\* tensor as it was.
C3_EmptyDecisionNoOp ==
    (pd = NoDecision /\ last.op \in {"remove_grads"} \cup PruneOps) =>
        /\ last.ok
        /\ StateTensors(state) = StateTensors(old.state)
        /\ ParamTensors(params) = ParamTensors(old.params)

\* The decision holds, for the group of some axis of a parameter with a state
\* entry, an index at or beyond the extent of that axis.
StaleFor(ps, st, dec) ==
    \E k \in 1..Len(st) :
        LET pi == ParamOf(ps, st[k].key)
            c == PruningCuts(ps[pi].name, dec)
            shape == st[k].v.exp_avg.shape
        IN  /\ pi # 0
            /\ c.kind = "cut"
            /\ \/ c.c0.on /\ ~InRange(c.c0.ix, shape[1])
               \/ c.c1.on /\ Len(shape) >= 2 /\ ~InRange(c.c1.ix, shape[2])

\* C4 (Stale-index rejection, all-or-nothing): called with a decision that holds
\* a stale index, Adam.pruning fails, and then the state mapping, its tensors and
\* the parameter-group list are as they were before the call.
C4_StaleIndexRejection ==
    (last.op \in PruneOps /\ StaleFor(old.params, old.state, pd)) =>
        /\ ~last.ok
        /\ state = old.state
        /\ groupParams = old.groupParams

\* The position (1-based) that position p of an axis takes once the positions of
\* R (0-based) below it are deleted.
Shifted(p, R) == p - Cardinality({r \in R : r < p - 1})

Removed(cut) == IF cut.on THEN IdxSet(cut.ix) ELSE {}

\* b is a with the positions R0 of axis 0 and R1 of axis 1 deleted, the remaining
\* entries in their original relative order.
IsSubTensor(b, a, R0, R1) ==
    /\ Rank(b) = Rank(a)
    /\ b.shape[1] = a.shape[1] - Cardinality(R0)
    /\ Len(b.d) = b.shape[1]
    /\ IF Rank(a) = 1
       THEN \A i \in 1..a.shape[1] :
               (i - 1) \notin R0 => b.d[Shifted(i, R0)] = a.d[i]
       ELSE /\ b.shape[2] = a.shape[2] - Cardinality(R1)
            /\ \A i \in 1..a.shape[1] :
                 (i - 1) \notin R0 =>
                    /\ Len(b.d[Shifted(i, R0)]) = b.shape[2]
                    /\ \A j \in 1..a.shape[2] :
                         (j - 1) \notin R1 =>
                            b.d[Shifted(i, R0)][Shifted(j, R1)] = a.d[i][j]

\* C5 (Index-order preservation): in every state entry a completed Adam.pruning
\* rebuilds, each axis cut with an index list R (all of R within the axis) keeps
\* exactly the entries at the positions not in R, in their original relative
\* order; its extent drops by the number of distinct indices of R.
C5_IndexOrderPreservation ==
    (last.op \in PruneOps /\ last.ok) =>
        \A k \in 1..Len(state) :
            LET c == PruningCuts(NameAt(params, PruningList(params), k), pd)
                R0 == Removed(c.c0)
                R1 == Removed(c.c1)
            IN  /\ IsSubTensor(state[k].v.exp_avg, old.state[k].v.exp_avg, R0, R1)
                /\ IsSubTensor(state[k].v.exp_avg_sq, old.state[k].v.exp_avg_sq, R0, R1)

\* C5 witness: a completed pruning has cut an axis with a list of two indices,
\* given out of order, and the entry keeps values on that axis.
C5_Witness ==
    /\ last.op \in PruneOps /\ last.ok
    /\ \E k \in 1..Len(state) :
          LET c == PruningCuts(NameAt(params, PruningList(params), k), pd)
          IN  /\ c.c0.on /\ Len(c.c0.ix) >= 2 /\ c.c0.ix[1] > c.c0.ix[2]
              /\ state[k].v.exp_avg.shape[1] >= 1
              /\ state[k].v.exp_avg.shape[1] < old.state[k].v.exp_avg.shape[1]
              /\ state[k].v.exp_avg_sq # ZerosLike(state[k].v.exp_avg_sq)

\* C6 (Cross-axis independence): where a completed Adam.pruning cuts a 2-D weight
\* along both axes, the result is the sub-matrix without the marked rows and
\* columns, and it is the same when the columns are cut before the rows.
C6_CrossAxisIndependence ==
    (last.op \in PruneOps /\ last.ok) =>
        \A k \in 1..Len(state) :
            LET c == PruningCuts(NameAt(params, PruningList(params), k), pd)
                a == old.state[k].v.exp_avg
                b == state[k].v.exp_avg
            IN  (c.c0.on /\ c.c1.on) =>
                  /\ IsSubTensor(b, a, IdxSet(c.c0.ix), IdxSet(c.c1.ix))
                  /\ b = SelAxis0(SelAxis1(a, get_pruning_mask(a.shape[2], c.c1.ix).mask),
                                  get_pruning_mask(a.shape[1], c.c0.ix).mask)

\* C6 witness: a completed pruning has removed rows and columns of one weight.
C6_Witness ==
    /\ last.op \in PruneOps /\ last.ok
    /\ \E k \in 1..Len(state) :
          LET c == PruningCuts(NameAt(params, PruningList(params), k), pd)
              a == old.state[k].v.exp_avg
              b == state[k].v.exp_avg
          IN  /\ c.c0.on /\ c.c1.on
              /\ b.shape[1] < a.shape[1] /\ b.shape[2] < a.shape[2]
              /\ b.shape[1] >= 2 /\ b.shape[2] >= 2
              /\ b # ZerosLike(b)

\* C7 (Neutralization idempotence): a second remove_grads right after a first,
\* with the same decision and nothing in between, changes no gradient and no
\* optimizer-state tensor.
C7_NeutralizationIdempotence ==
    (last.op = "remove_grads" /\ last.prev = "remove_grads" /\ last.ok) =>
        /\ params = old.params
        /\ state = old.state

\* C7 witness: the second of two neutralizer calls has run on a state entry that
\* holds both zeroed and live moment values.
C7_Witness ==
    /\ last.op = "remove_grads" /\ last.prev = "remove_grads" /\ last.ok
    /\ \E k \in 1..Len(state) :
          LET t == state[k].v.exp_avg
          IN  /\ Rank(t) = 1
              /\ \E i \in 1..t.shape[1] : t.d[i] = 0
              /\ \E i \in 1..t.shape[1] : t.d[i] # 0

\* The names a call resolves: one per state entry, by position in the filtered
\* name list, gate vectors and the output projection excepted.
ResolvedNames(ps, st, list) ==
    {NameAt(ps, list, k) : k \in 1..(IF Len(st) < Len(list) THEN Len(st) ELSE Len(list))}
    \ {n \in {ps[i].name : i \in 1..Len(ps)} :
          EndsWithC(n) \/ Has(n, "output_projection")}

\* C9 (Classification error): a call of remove_grads or pruning that resolves a
\* name matching no role pattern, or more than one, raises an error.
C9_ClassificationError ==
    /\ (last.op = "remove_grads"
        /\ \E n \in ResolvedNames(old.params, old.state, NeutralizerList(old.params)) :
              Cardinality(SpecRoles(n)) # 1)
       => ~last.ok
    /\ (last.op \in PruneOps
        /\ \E n \in ResolvedNames(old.params, old.state, PruningList(old.params)) :
              Cardinality(SpecRoles(n)) # 1)
       => ~last.ok

\* C10 (Output-projection pass-through): after Adam.pruning, the state entry of a
\* parameter named output_projection is still in the mapping, unchanged, and
\* every entry behind it is there too, cut as its own name requires.
C10_OutputProjectionPassThrough ==
    (last.op \in PruneOps /\ last.ok) =>
        \A k \in 1..Len(old.state) :
            LET pi == ParamOf(old.params, old.state[k].key)
                n == old.params[pi].name
                c == PruningCuts(n, pd)
            IN  (pi # 0 /\ \E j \in 1..k :
                              LET pj == ParamOf(old.params, old.state[j].key)
                              IN  pj # 0 /\ Has(old.params[pj].name, "output_projection"))
                => \E k2 \in 1..Len(state) :
                      /\ state[k2].key = old.state[k].key
                      /\ state[k2].v =
                            IF Has(n, "output_projection") THEN old.state[k].v
                            ELSE PruneEntry(old.state[k].v, c)

\* The ids of a parameter list, as a set.
IdsOf(gp) == {gp[j] : j \in 1..Len(gp)}

\* C11 (State mapping rebuild): after a completed Adam.pruning the state mapping
\* has as many entries as before the call, its i-th entry is keyed by the i-th
\* parameter of the frozen list of ordinary trainable parameters, and every key
\* is a member of param_groups[0]['params'].
C11_StateMappingRebuild ==
    (last.op \in PruneOps /\ last.ok) =>
        /\ Len(state) = Len(old.state)
        /\ \A k \in 1..Len(state) :
              /\ k <= Len(PruningGroup(params))
              /\ state[k].key = PruningGroup(params)[k]
              /\ state[k].key \in IdsOf(groupParams)

\* Some tensor of a state entry has a shape other than that of the parameter
\* the entry is keyed by.
ShapeMismatch(ps, st) ==
    \E k \in 1..Len(st) :
        LET pi == ParamOf(ps, st[k].key)
        IN  /\ pi # 0
            /\ \E t \in EntryTensors(st[k].v) : t.shape # ps[pi].data.shape

\* C12 (Shape-mismatch error): a call of remove_grads or pruning entered with a
\* state tensor whose shape differs from its parameter's fails, and has zeroed
\* or sliced nothing.
C12_ShapeMismatchError ==
    (last.op \in {"remove_grads"} \cup PruneOps
     /\ ShapeMismatch(old.params, old.state)) =>
        /\ ~last.ok
        /\ state = old.state
        /\ params = old.params

\* b is a with the positions R0 of axis 0 and R1 of axis 1 set to zero and every
\* other value as it was.
Zeroed(b, a, R0, R1) ==
    /\ b.shape = a.shape
    /\ Rank(a) \in {1, 2}
    /\ IF Rank(a) = 1
       THEN \A i \in 1..a.shape[1] :
               b.d[i] = IF (i - 1) \in R0 THEN 0 ELSE a.d[i]
       ELSE \A i \in 1..a.shape[1] : \A j \in 1..a.shape[2] :
               b.d[i][j] = IF (i - 1) \in R0 \/ (j - 1) \in R1 THEN 0 ELSE a.d[i][j]

\* The index set of the global group of a side, and of a local group of the
\* layer the name n lies in.
GlobalSet(dec, side) == IdxSet(PdGet(dec, <<side, "embedding_c">>))

LocalSet(dec, n, grp) == IdxSet(PdGet(dec, <<n[1], "layers", n[3], grp>>))

\* The sets of the two axes of a parameter of a sub-layer: an input-side weight
\* (fc1, q/k/v) has the local set on axis 0 and the global set on axis 1, an
\* output-side weight (fc2, out_proj) the reverse; a bias has axis 0 only.
AxisSets(outputSide, bias, G, L) ==
    [r0 |-> IF outputSide THEN G ELSE L,
     r1 |-> IF bias THEN {} ELSE IF outputSide THEN L ELSE G]

\* The last call was a completed remove_grads and has zeroed, in the gradient and
\* the moments of the k-th entry, the positions ax.r0 and ax.r1 and nothing else.
NeutralizedAs(k, ax) ==
    LET pi == NeutralizerList(params)[k]
    IN  /\ Zeroed(params[pi].grad, old.params[pi].grad, ax.r0, ax.r1)
        /\ Zeroed(state[k].v.exp_avg, old.state[k].v.exp_avg, ax.r0, ax.r1)
        /\ Zeroed(state[k].v.exp_avg_sq, old.state[k].v.exp_avg_sq, ax.r0, ax.r1)

\* The last call was a completed pruning and has removed, from the moments of
\* the k-th entry, the positions ax.r0 and ax.r1 and nothing else.
PrunedAs(k, ax) ==
    /\ IsSubTensor(state[k].v.exp_avg, old.state[k].v.exp_avg, ax.r0, ax.r1)
    /\ IsSubTensor(state[k].v.exp_avg_sq, old.state[k].v.exp_avg_sq, ax.r0, ax.r1)

IsFcName(n) ==
    Len(n) = 5 /\ n[2] = "layers" /\ n[4] \in {"fc1", "fc2"} /\ n[5] \in {"weight", "bias"}

\* The axis sets of a feed-forward parameter.
FcAxes(n, dec) ==
    AxisSets(n[4] = "fc2", n[5] = "bias",
             GlobalSet(dec, n[1]), LocalSet(dec, n, "fc_c"))

IsAttnName(n) ==
    /\ Len(n) = 6 /\ n[2] = "layers"
    /\ n[4] \in {"self_attn", "encoder_attn"}
    /\ n[5] \in {"q_proj", "k_proj", "v_proj", "out_proj"}
    /\ n[6] \in {"weight", "bias"}

\* {attn_kind}_qk_c for q_proj and k_proj, {attn_kind}_vo_c for v_proj and out_proj.
AttnGroup(n) ==
    IF n[5] \in {"q_proj", "k_proj"}
    THEN (IF n[4] = "self_attn" THEN "self_attn_qk_c" ELSE "encoder_attn_qk_c")
    ELSE (IF n[4] = "self_attn" THEN "self_attn_vo_c" ELSE "encoder_attn_vo_c")

AttnGroups == {"self_attn_qk_c", "self_attn_vo_c", "encoder_attn_qk_c", "encoder_attn_vo_c"}

\* The side whose embedding group is the global group of an attention
\* projection: the encoder for k_proj and v_proj of cross attention, the decoder
\* for its q_proj and out_proj, the owning side for self attention.
AttnGlobalSide(n) ==
    IF n[4] = "self_attn" THEN n[1]
    ELSE IF n[5] \in {"k_proj", "v_proj"} THEN "encoder" ELSE "decoder"

\* C19 (Attention-projection axes and local key): a q/k/v projection weight has
\* the global set on axis 1 and the local set on axis 0 (bias: local set on axis
\* 0), an out_proj weight the global set on axis 0 and the local set on axis 1
\* (bias: global set on axis 0); the local set is that of
\* {side}.layers.{i}.{attn_kind}_qk_c for q_proj and k_proj and of
\* {side}.layers.{i}.{attn_kind}_vo_c for v_proj and out_proj, in remove_grads
\* and in pruning alike.  (Which side's embedding group is the global set is
\* the subject of C20.)
C19_AttentionAxesLocalKey ==
    /\ (last.op = "remove_grads" /\ last.ok) =>
          \A k \in 1..Len(state) :
              LET n == NameAt(params, NeutralizerList(params), k)
              IN  IsAttnName(n) =>
                    \E side \in {"encoder", "decoder"} :
                        NeutralizedAs(k, AxisSets(n[5] = "out_proj", n[6] = "bias",
                                                  GlobalSet(pd, side),
                                                  LocalSet(pd, n, AttnGroup(n))))
    /\ (last.op \in PruneOps /\ last.ok) =>
          \A k \in 1..Len(state) :
              LET n == NameAt(params, PruningList(params), k)
              IN  IsAttnName(n) =>
                    \E side \in {"encoder", "decoder"} :
                        PrunedAs(k, AxisSets(n[5] = "out_proj", n[6] = "bias",
                                             GlobalSet(pd, side),
                                             LocalSet(pd, n, AttnGroup(n))))

\* C19 witness: a completed pruning has cut a v_proj weight whose qk and vo
\* groups hold different non-empty sets, and whose global set is non-empty.
C19_Witness ==
    /\ last.op \in PruneOps /\ last.ok
    /\ \E k \in 1..Len(state) :
          LET n == NameAt(params, PruningList(params), k)
          IN  /\ IsAttnName(n) /\ n[5] = "v_proj" /\ n[6] = "weight"
              /\ LocalSet(pd, n, AttnGroup(n)) # {}
              /\ \E g \in AttnGroups \ {AttnGroup(n)} :
                    LocalSet(pd, n, g) \notin {{}, LocalSet(pd, n, AttnGroup(n))}
              /\ GlobalSet(pd, AttnGlobalSide(n)) # {}
              /\ state[k].v.exp_avg.shape[1] < old.state[k].v.exp_avg.shape[1]
              /\ state[k].v.exp_avg.shape[2] < old.state[k].v.exp_avg.shape[2]

\* C20 (Attention global key): the global set of k_proj and v_proj of cross
\* attention is that of encoder.embedding_c, the global set of its q_proj and
\* out_proj that of decoder.embedding_c, and the global set of a self-attention
\* parameter that of the embedding group of its own side, in remove_grads and in
\* pruning alike.  (Which local group goes with it is the subject of C19.)
C20_AttentionGlobalKey ==
    /\ (last.op = "remove_grads" /\ last.ok) =>
          \A k \in 1..Len(state) :
              LET n == NameAt(params, NeutralizerList(params), k)
              IN  IsAttnName(n) =>
                    \E g \in AttnGroups :
                        NeutralizedAs(k, AxisSets(n[5] = "out_proj", n[6] = "bias",
                                                  GlobalSet(pd, AttnGlobalSide(n)),
                                                  LocalSet(pd, n, g)))
    /\ (last.op \in PruneOps /\ last.ok) =>
          \A k \in 1..Len(state) :
              LET n == NameAt(params, PruningList(params), k)
              IN  IsAttnName(n) =>
                    \E g \in AttnGroups :
                        PrunedAs(k, AxisSets(n[5] = "out_proj", n[6] = "bias",
                                             GlobalSet(pd, AttnGlobalSide(n)),
                                             LocalSet(pd, n, g)))

\* C20 witness: a completed call has handled a k_proj weight of a decoder's
\* cross attention while the encoder's and the decoder's global sets differ and
\* neither is empty.
C20_Witness ==
    /\ last.op \in {"remove_grads"} \cup PruneOps /\ last.ok
    /\ GlobalSet(pd, "encoder") # {} /\ GlobalSet(pd, "decoder") # {}
    /\ GlobalSet(pd, "encoder") # GlobalSet(pd, "decoder")
    /\ \E k \in 1..Len(state) :
          LET n == NameAt(params, IF last.op = "remove_grads"
                                  THEN NeutralizerList(params)
                                  ELSE PruningList(params), k)
          IN  /\ IsAttnName(n) /\ n[1] = "decoder" /\ n[4] = "encoder_attn"
              /\ n[5] = "k_proj" /\ n[6] = "weight"
              /\ state[k].v.exp_avg # ZerosLike(state[k].v.exp_avg)

---------------------------------------------------------------------------
(* Properties of the training loop *)

\* The decision selects at least one index.
Marked(dec) == \E k \in DOMAIN dec : Len(dec[k]) > 0

\* C13 (Removal Decision lifecycle): in a run of the training loop, a training
\* step (whose neutralizer reads the Removal Decision) and a hard prune are only
\* entered with a decision that selects indices if no earlier hard prune has
\* applied this decision: the decision is used by one hard prune and is gone
\* afterwards.
C13_RemovalDecisionLifecycle ==
    (loc \in {"batch", "adam_pruning"} /\ Marked(pd)) => pd_uses = 0

\* The number of occurrences of an event in the log of the current epoch.
Count(ev) == Cardinality({i \in 1..Len(log) : log[i] = ev})

\* train() has been entered for the epoch whose log this is.
InTrain == Len(log) >= 1 /\ log[1] = "get_phase" /\ loc # "train"

At(ev) == {i \in 1..Len(log) : log[i] = ev}

\* j follows every position of the set.
After(j, S) == \A k \in S : k < j

C17_HardPruneAtomicity ==
    \A i \in At("model_pruning") :
        /\ i < Len(log) => log[i + 1] = "adam_pruning"
        /\ \A m \in At("update_pos_emb_mask") :
              i < m => \E j \in At("adam_pruning") : i < j /\ j < m

\* The checkpoint was written inside an epoch.
MidEpoch(c) == c.epoch_itr.pos > 0 /\ c.epoch_itr.pos < BatchesPerEpoch

\* The epoch of the first training step that follows the checkpoint in the run
\* that is not interrupted.
EpochAfter(c) == IF MidEpoch(c) THEN c.epoch ELSE c.epoch + 1

\* The decay ticks the uninterrupted run performs between the checkpoint and
\* the training step that follows it: the tick of the epoch cadence when a new
\* epoch of the pruning phase begins in between, none inside an epoch.
TicksAfter(c) ==
    IF ~MidEpoch(c) /\ cfg.decreasing = "e"
       /\ get_phase(cfg.sched, EpochAfter(c)).phase = "pruning"
    THEN 1 ELSE 0

\* C14 (Checkpoint resume equivalence): a run resumed from a checkpoint enters
\* its first training step in the state in which the uninterrupted run enters
\* the training step that follows the checkpoint: the same parameters and
\* optimizer state, the same Removal Decision, the same epoch and phase, the
\* same position in the epoch, and gate values that have received the same
\* decay ticks.
C14_ResumeEquivalence ==
    (run = "resuming" /\ loc = "batch") =>
        /\ params = ck.params /\ state = ck.state
        /\ pd = ck.pd
        /\ epoch = EpochAfter(ck)
        /\ phase = get_phase(cfg.sched, EpochAfter(ck)).phase
        /\ do_pruning = get_phase(cfg.sched, EpochAfter(ck)).do_pruning
        /\ epoch_itr.pos = (IF MidEpoch(ck) THEN ck.epoch_itr.pos ELSE 0)
        /\ gate_c = ck.gate_c + TicksAfter(ck)

---------------------------------------------------------------------------
(* Properties of the embedding and layer-norm roles and of the neutralizer *)

IsEmbedName(n) == Has(n, "embed_tokens")

IsNormName(n) ==
    ~Has(n, "embed_tokens") /\ ~Has(n, "output_projection") /\ Has(n, "layer_norm")

\* The axis sets of an embedding (columns) and of a layer norm (axis 0).
EmbedNormAxes(n, dec) ==
    IF IsEmbedName(n) THEN [r0 |-> {}, r1 |-> GlobalSet(dec, n[1])]
    ELSE [r0 |-> GlobalSet(dec, n[1]), r1 |-> {}]

\* A call is entered with state entries that all belong, position by position,
\* to embedding and layer-norm parameters with a gradient, and with a decision
\* that holds the global group of both sides with indices inside the embedding
\* dimension.
EmbedNormCall(list) ==
    /\ Len(old.state) >= 1 /\ Len(old.state) <= Len(list)
    /\ \A k \in 1..Len(old.state) :
          /\ old.state[k].key = old.params[list[k]].id
          /\ IsEmbedName(old.params[list[k]].name) \/ IsNormName(old.params[list[k]].name)
          /\ ~IsNone(old.params[list[k]].grad)
          /\ \A t \in EntryTensors(old.state[k].v) :
                t.shape = old.params[list[k]].data.shape
    /\ \A side \in {"encoder", "decoder"} :
          /\ <<side, "embedding_c">> \in DOMAIN pd
          /\ InRange(pd[<<side, "embedding_c">>], EmbedDim)

\* C21 (Embedding and layer-norm axes): remove_grads and pruning resolve every
\* name that contains 'embed_tokens' and every name that contains 'layer_norm',
\* at any depth of the name path, without error; the global set
\* {side}.embedding_c of the first component of the name is zeroed or removed
\* along axis 1 of an embedding and along axis 0 of a layer norm, and nothing
\* else is.
C21_EmbeddingLayerNormAxes ==
    /\ (last.op = "remove_grads" /\ EmbedNormCall(NeutralizerList(old.params))) =>
          /\ last.ok
          /\ \A k \in 1..Len(state) :
                NeutralizedAs(k, EmbedNormAxes(NameAt(params, NeutralizerList(params), k), pd))
    /\ (last.op = "pruning" /\ EmbedNormCall(PruningList(old.params))) =>
          /\ last.ok
          /\ \A k \in 1..Len(state) :
                PrunedAs(k, EmbedNormAxes(NameAt(params, PruningList(params), k), pd))

\* The index sets the Removal Decision marks on the two axes of the parameter
\* named n, by the role of the name.
RoleAxes(n, dec) ==
    IF IsEmbedName(n) \/ (IsNormName(n) /\ Len(n) >= 5) THEN EmbedNormAxes(n, dec)
    ELSE IF IsFcName(n) THEN FcAxes(n, dec)
    ELSE IF IsAttnName(n)
    THEN AxisSets(n[5] = "out_proj", n[6] = "bias",
                  GlobalSet(dec, AttnGlobalSide(n)), LocalSet(dec, n, AttnGroup(n)))
    ELSE [r0 |-> {}, r1 |-> {}]

\* The tensor is zero at every position whose axis-0 index is in R0 or whose
\* axis-1 index is in R1.
ZeroAt(t, R0, R1) ==
    IF Rank(t) = 1
    THEN \A i \in 1..t.shape[1] : (i - 1) \in R0 => t.d[i] = 0
    ELSE IF Rank(t) = 2
    THEN \A i \in 1..t.shape[1] : \A j \in 1..t.shape[2] :
            ((i - 1) \in R0 \/ (j - 1) \in R1) => t.d[i][j] = 0
    ELSE R0 = {} /\ R1 = {}

\* C22 (Neutralizer coverage): after a completed remove_grads, for every state
\* entry of an ordinary parameter the gradient, exp_avg, exp_avg_sq and, when
\* it is present, max_exp_avg_sq are zero at every position the Removal
\* Decision marks on an axis of the parameter.
C22_NeutralizerCoverage ==
    (last.op = "remove_grads" /\ last.ok) =>
        \A k \in 1..Len(state) :
            LET pi == NeutralizerList(params)[k]
                ax == RoleAxes(params[pi].name, pd)
            IN  \A t \in {params[pi].grad} \cup EntryTensors(state[k].v) :
                    ZeroAt(t, ax.r0, ax.r1)

\* The parameters with a gradient registered for every trainable parameter that
\* has none.
Filled(ps) ==
    [i \in 1..Len(ps) |->
        [ps[i] EXCEPT !.grad = IF ps[i].requires_grad /\ IsNone(@)
                               THEN Ramp(ps[i].data.shape, 1) ELSE @]]

\* C23 (Neutralizer skips): a call of remove_grads that would complete if every
\* trainable parameter had a gradient also completes when some have none; it
\* leaves the parameters without a gradient and their state entries, and every
\* gate-vector parameter, as they were, and neutralizes every other parameter
\* as the call with all gradients does.
C23_NeutralizerSkips ==
    (last.op = "remove_grads"
     /\ remove_grads(Filled(old.params), old.state, pd).ok) =>
        /\ last.ok
        /\ \A i \in 1..Len(params) : EndsWithC(params[i].name) => params[i] = old.params[i]
        /\ \A k \in 1..Len(state) :
              LET pi == NeutralizerList(params)[k]
                  ref == remove_grads(Filled(old.params), old.state, pd)
              IN  IF IsNone(old.params[pi].grad)
                  THEN state[k] = old.state[k] /\ IsNone(params[pi].grad)
                  ELSE state[k] = ref.state[k] /\ params[pi].grad = ref.params[pi].grad

\* b has the shape of a and the value of a at every position whose axis-0 index
\* is outside R0 and whose axis-1 index is outside R1.
SameOff(b, a, R0, R1) ==
    /\ b.shape = a.shape
    /\ IF Rank(a) = 1
       THEN \A i \in 1..a.shape[1] : (i - 1) \notin R0 => b.d[i] = a.d[i]
       ELSE IF Rank(a) = 2
       THEN \A i \in 1..a.shape[1] : \A j \in 1..a.shape[2] :
               ((i - 1) \notin R0 /\ (j - 1) \notin R1) => b.d[i][j] = a.d[i][j]
       ELSE b = a

\* The shapes, the parameter values, the step counts, the keys of the state
\* mapping and the parameter groups after the call are those before it.
FrameKept ==
    /\ groupParams = old.groupParams
    /\ Len(params) = Len(old.params)
    /\ \A i \in 1..Len(params) :
          /\ params[i].data = old.params[i].data
          /\ params[i].name = old.params[i].name /\ params[i].id = old.params[i].id
          /\ params[i].grad.shape = old.params[i].grad.shape
    /\ Len(state) = Len(old.state)
    /\ \A k \in 1..Len(state) :
          /\ state[k].key = old.state[k].key
          /\ DOMAIN state[k].v = DOMAIN old.state[k].v
          /\ state[k].v.step = old.state[k].v.step
          /\ \A f \in DOMAIN state[k].v \ {"step"} :
                state[k].v[f].shape = old.state[k].v[f].shape

\* No gradient and no moment has changed at a position that the Removal
\* Decision does not mark for the parameter the tensor belongs to.
UnmarkedKept ==
    /\ \A i \in 1..Len(params) :
          LET ax == RoleAxes(params[i].name, pd)
          IN  SameOff(params[i].grad, old.params[i].grad, ax.r0, ax.r1)
    /\ \A k \in 1..Len(state) :
          LET pi == ParamOf(params, state[k].key)
              ax == RoleAxes(params[pi].name, pd)
          IN  \A f \in DOMAIN state[k].v \ {"step"} :
                SameOff(state[k].v[f], old.state[k].v[f], ax.r0, ax.r1)

\* C24 (Neutralizer frame): a call of remove_grads, completed or not, changes
\* no shape of a parameter, gradient or state tensor, no parameter value, no
\* step count, no key of the state mapping and no parameter group, and no
\* gradient or moment value at a position that is not marked for removal.
C24_NeutralizerFrame ==
    last.op = "remove_grads" => (FrameKept /\ UnmarkedKept)

\* C26 (Name/state alignment): whenever remove_grads or pruning is called, the
\* state entries are no more than the names of the filtered list, and the name
\* at position k of the list, under which the k-th state entry is resolved, is
\* the name of the parameter that owns this entry.
C26_NameStateAlignment ==
    /\ last.op = "remove_grads" =>
          \A k \in 1..Len(old.state) :
              /\ k <= Len(NeutralizerList(old.params))
              /\ old.params[NeutralizerList(old.params)[k]].id = old.state[k].key
    /\ last.op = "pruning" =>
          \A k \in 1..Len(old.state) :
              /\ k <= Len(PruningList(old.params))
              /\ old.params[PruningList(old.params)[k]].id = old.state[k].key

---------------------------------------------------------------------------
(* Properties of the Removal Decision built by main() *)

\* The keys the getters produce for the model: its gate vectors.
ProducedKeys ==
    GateKeys(params, {"fc_c", "embedding_c", "self_attn_qk_c", "encoder_attn_qk_c",
                      "self_attn_vo_c", "encoder_attn_vo_c"})

\* C25 (Stage sentinel): in the SRP start-up of main(), when pm.get returns -1
\* as its first value the Removal Decision stays as it was; otherwise it is a
\* new mapping whose keys are exactly the keys produced for this stage, each
\* with a newly selected index list, and no key of the previous decision that
\* was not produced again is left in it.
C25_StageSentinel ==
    (last.op = "stage_lookup" /\ cfg.srp) =>
        IF last.got.gle = -1
        THEN pd = last.pd
        ELSE /\ DOMAIN pd = ProducedKeys
             /\ \A k \in DOMAIN pd : \E n \in 0..MaxCount : pd[k] = Selected(n)
             /\ \A k \in DOMAIN last.pd \ ProducedKeys : k \notin DOMAIN pd

\* A stage lookup without the sentinel has replaced a decision that held keys
\* the new stage does not produce, by a decision that selects indices.
C25_Witness ==
    /\ last.op = "stage_lookup" /\ cfg.srp
    /\ last.got.gle # -1
    /\ DOMAIN last.pd \ ProducedKeys # {}
    /\ Marked(last.pd) /\ Marked(pd)

\* The count of the stage lookup that belongs to the family of a key.
FamilyCount(k, got) ==
    LET e == k[Len(k)]
    IN  IF e = "fc_c" THEN got.fc
        ELSE IF e = "embedding_c" THEN (IF k[1] = "encoder" THEN got.gle ELSE got.gld)
        ELSE IF e \in {"self_attn_qk_c", "encoder_attn_qk_c"} THEN got.qk
        ELSE got.vo

\* C27 (Per-group removal counts): in the Removal Decision that main() builds
\* from the stage lookup, every entry holds as many indices as the count of its
\* own family asks for: fc for the feed-forward entries, gle and gld for the
\* global entries of the two sides, qk for the attention qk entries and vo for
\* the attention vo entries.
C27_PerGroupCounts ==
    (last.op = "stage_lookup" /\ last.got.gle # -1) =>
        \A k \in DOMAIN pd : Len(pd[k]) = FamilyCount(k, last.got)

====
